---- MODULE Spec2Model ----
(***************************************************************************)
(* Timestamp-versioned artifact storage of the churn-prediction pipeline:  *)
(* utils/artifact_manager.py (ArtifactManager, local filesystem) and       *)
(* utils/s3_artifact_manager.py (S3ArtifactManager, object store), with    *)
(* the list_keys / delete_key helpers of utils/s3_io.py.                   *)
(*                                                                         *)
(* A path or key is the record of its components,                         *)
(* [root, sub, ver, base, ext], standing for root/sub/ver/base.ext, or     *)
(* root/sub/base.ext when ver is empty.  Components are TLA+ strings.  The *)
(* operations that read a name character by character (the pattern match,  *)
(* strptime, strftime, string comparison) work on its code points, which   *)
(* Spelling gives for every name that occurs.                              *)
(***************************************************************************)
EXTENDS Integers, Sequences, FiniteSets, TLC

\* ------------------------------------------------------------------ bounds
\* The wall clock takes the values 0..MaxClock (seconds after the epoch below).
MaxClock == 1
\* At most MaxDirs directory names (local) or key prefixes (object store) are
\* in use at a time under Spec and SpecBoth, one more under SpecWide.
MaxDirs == 2
\* keep_count arguments range over -1..MaxKeep.
MaxKeep == 1
\* A page of an object-store listing holds up to PageSize keys.
PageSize == 2

\* ------------------------------------------------- strings and code points
Nl == 10
Zero == 48
Dot == 46
Slash == 47

IsDigit(c) == c >= Zero /\ c <= Zero + 9

\* The string of the decimal digits ds, e.g. Str(<<2, 0>>) is "20".
Str(ds) == [i \in 1..Len(ds) |-> ds[i] + Zero]

\* Python's str comparison: by code point, a proper prefix is smaller.
RECURSIVE StrLess(_, _)
StrLess(a, b) ==
    IF b = <<>> THEN FALSE
    ELSE IF a = <<>> THEN TRUE
    ELSE IF Head(a) # Head(b) THEN Head(a) < Head(b)
    ELSE StrLess(Tail(a), Tail(b))

\* re.match(r'^\d{14}$', name): fourteen digits, then the end of the string or
\* a single newline that ends the string ('$' also matches before it).
OnlyDigits14(name) == \A i \in 1..14 : IsDigit(name[i])

ReMatch14(name) ==
    /\ Len(name) >= 14
    /\ OnlyDigits14(name)
    /\ \/ Len(name) = 14
       \/ Len(name) = 15 /\ name[15] = Nl

\* ------------------------------------------------------------- date-times
Num(name, i, n) ==
    LET RECURSIVE val(_, _)
        val(k, acc) == IF k = n THEN acc
                       ELSE val(k + 1, acc * 10 + (name[i + k] - Zero))
    IN val(0, 0)

IsLeap(y) == (y % 4 = 0 /\ y % 100 # 0) \/ y % 400 = 0

DaysIn(y, m) ==
    IF m = 2 THEN (IF IsLeap(y) THEN 29 ELSE 28)
    ELSE IF m \in {4, 6, 9, 11} THEN 30 ELSE 31

\* The fields datetime.strptime(name, "%Y%m%d%H%M%S") reads from 14 digits:
\* every field takes its full width, since the string has no separators.
Fields(name) ==
    [Y |-> Num(name, 1, 4), M |-> Num(name, 5, 2), D |-> Num(name, 7, 2),
     h |-> Num(name, 9, 2), m |-> Num(name, 11, 2), s |-> Num(name, 13, 2)]

\* strptime raises ValueError on unconverted data (a 15th character) and on
\* a field out of range (the datetime constructor rejects year 0 and second 60).
StrptimeOk(name) ==
    /\ Len(name) = 14
    /\ OnlyDigits14(name)
    /\ LET f == Fields(name)
       IN /\ f.Y >= 1
          /\ f.M >= 1 /\ f.M <= 12
          /\ f.D >= 1 /\ f.D <= DaysIn(f.Y, f.M)
          /\ f.h <= 23 /\ f.m <= 59 /\ f.s <= 59

Strptime(name) == Fields(name)

\* datetime comparison, as max(..., key=lambda x: x[0]) and sort use it.
DtKey(t) == <<t.Y, t.M, t.D, t.h, t.m, t.s>>

RECURSIVE TupleLess(_, _)
TupleLess(a, b) ==
    IF a = <<>> \/ b = <<>> THEN FALSE
    ELSE IF Head(a) # Head(b) THEN Head(a) < Head(b)
    ELSE TupleLess(Tail(a), Tail(b))

DtLess(t, u) == TupleLess(DtKey(t), DtKey(u))

\* Zero-padded decimal of width w.
RECURSIVE Pad(_, _)
Pad(n, w) == IF w = 0 THEN <<>> ELSE Append(Pad(n \div 10, w - 1), Zero + (n % 10))

\* datetime.strftime("%Y%m%d%H%M%S").
Strftime(t) ==
    Pad(t.Y, 4) \o Pad(t.M, 2) \o Pad(t.D, 2) \o Pad(t.h, 2) \o Pad(t.m, 2) \o Pad(t.s, 2)

\* datetime.now() when the wall clock reads c: c seconds after
\* 2025-01-01 00:00:59, so that consecutive readings cross a minute.
Now(c) ==
    [Y |-> 2025, M |-> 1, D |-> 1, h |-> 0,
     m |-> (59 + c) \div 60, s |-> (59 + c) % 60]

\* -------------------------------------------------------- names and paths
DefaultBaseDir == "data/artifacts"
\* self.base_dir, set by the constructor and never assigned again.
VARIABLE base_dir
BaseDir == base_dir
BasePrefix == "artifacts"
DefaultArtifactType == "data_artifacts"

\* An optional argument: None, or Some(v) for the value v.
None == <<>>
Some(v) == <<v>>

\* The names that occur, each with its code points.
Spelling ==
    {<<"20241231235959", Str(<<2, 0, 2, 4, 1, 2, 3, 1, 2, 3, 5, 9, 5, 9>>)>>,
     <<"20250101000059", Str(<<2, 0, 2, 5, 0, 1, 0, 1, 0, 0, 0, 0, 5, 9>>)>>,
     <<"20250101000100", Str(<<2, 0, 2, 5, 0, 1, 0, 1, 0, 0, 0, 1, 0, 0>>)>>,
     <<"20250101000101", Str(<<2, 0, 2, 5, 0, 1, 0, 1, 0, 0, 0, 1, 0, 1>>)>>,
     <<"20250101000102", Str(<<2, 0, 2, 5, 0, 1, 0, 1, 0, 0, 0, 1, 0, 2>>)>>,
     <<"20250230000000", Str(<<2, 0, 2, 5, 0, 2, 3, 0, 0, 0, 0, 0, 0, 0>>)>>,
     <<"tmp", <<116, 109, 112>>>>,
     <<"X_train", <<88, 95, 116, 114, 97, 105, 110>>>>,
     <<"Y_train", <<89, 95, 116, 114, 97, 105, 110>>>>,
     <<"csv", <<99, 115, 118>>>>,
     <<"parquet", <<112, 97, 114, 113, 117, 101, 116>>>>,
     <<"joblib", <<106, 111, 98, 108, 105, 98>>>>}

Chars(name) == (CHOOSE p \in Spelling : p[1] = name)[2]
NameOf(chars) == (CHOOSE p \in Spelling : p[2] = chars)[1]

\* The version identifiers the clock produces within the bounds.
Stamp == [c \in 0..MaxClock |-> NameOf(Strftime(Now(c)))]
ClockVersions == {Stamp[c] : c \in 0..MaxClock}
\* The version of a run of last year.
LastYear == "20241231235959"
\* 2025-02-30 00:00:00: fourteen digits that are no date.
NoDate == "20250230000000"
Tmp == "tmp"

\* The names directories and key prefixes take: what callers pass as timestamp.
DirNames == ClockVersions \cup {LastYear, NoDate, Tmp}

\* The pattern match, the parse and the two orders, tabulated over DirNames.
Matches == [n \in DirNames |-> ReMatch14(Chars(n))]
Parses == [n \in DirNames |-> StrptimeOk(Chars(n))]
StrBefore == [n \in DirNames |-> [m \in DirNames |-> StrLess(Chars(n), Chars(m))]]
DtBefore ==
    [n \in DirNames |-> [m \in DirNames |->
        Parses[n] /\ Parses[m] /\ DtLess(Strptime(Chars(n)), Strptime(Chars(m)))]]

\* max() over a non-empty set of strings.
StrMax(S) == CHOOSE x \in S : \A y \in S : y = x \/ StrBefore[y][x]

BaseNames == {"X_train", "Y_train"}
NameSets == SUBSET BaseNames
Exts == {"csv"}
SubdirArgs == {None}
ArtifactTypes == {DefaultArtifactType}

\* for ext in ["csv", "parquet"]: the formats get_artifact_info knows, in the
\* order it goes through them; and an extension it does not know.
FormatExts == <<"csv", "parquet">>
OtherExt == "joblib"
\* The extensions of files and keys, and the subdirs and artifact types they
\* lie under, that occur.
AllExts == Exts \cup {FormatExts[i] : i \in DOMAIN FormatExts} \cup {OtherExt}
AllSubs == ArtifactTypes \cup {FormatExts[i] : i \in DOMAIN FormatExts}

Path(root, sub, ver, base, ext) ==
    [root |-> root, sub |-> sub, ver |-> ver, base |-> base, ext |-> ext]

\* The legacy path taken under the manager's base directory.
LegacyPath_UnderBase(base, ext) == Path(BaseDir, "data", "", base, ext)

\* f"artifacts/data/{base_name}.{format_ext}", relative to the working directory.
LegacyPath(base, ext) == Path("artifacts", "data", "", base, ext)

\* A directory entry of base_dir: the format directory itself (name empty) or
\* one of its children.
Entry(sub, name) == [sub |-> sub, name |-> name]

EmptyMap == [b \in {} |-> Path("", "", "", "", "")]

\* Python's seq[k:] for an integer k that may be negative.
SliceFrom(seq, k) ==
    LET n == Len(seq)
        start == IF k < 0 THEN (IF n + k < 0 THEN 0 ELSE n + k)
                 ELSE (IF k > n THEN n ELSE k)
    IN SubSeq(seq, start + 1, n)

Range(f) == {f[i] : i \in DOMAIN f}

\* ------------------------------------------ ArtifactManager (local backend)
\* The local filesystem is given by
\*   dirs   the directories under base_dir, as Entry(sub, name),
\*   plain  the children of format directories that are not directories,
\*   files  the files, as paths (version files and legacy files).

\* generate_timestamp that reads the clock once and keeps the value.
GenerateTimestamp_Frozen(c) == Stamp[0]

\* ArtifactManager.generate_timestamp
GenerateTimestamp(c) == Stamp[c]

\* "if subdir is None: subdir = format_ext"
Subdir(subdir, format_ext) == IF subdir = None THEN format_ext ELSE subdir[1]

\* create_timestamped_paths without the mkdir.
CreateTimestampedPaths_NoMkdir(dirs, plain, c, base_names, timestamp, subdir, format_ext) ==
    LET ts == IF timestamp = None THEN GenerateTimestamp(c) ELSE timestamp[1]
        sub == Subdir(subdir, format_ext)
    IN [raised |-> FALSE,
        out |-> [b \in base_names |-> Path(BaseDir, sub, ts, b, format_ext)],
        ts |-> ts,
        dirs |-> dirs]

\* create_timestamped_paths with mkdir(exist_ok=False).
CreateTimestampedPaths_ExistNotOk(dirs, plain, c, base_names, timestamp, subdir, format_ext) ==
    LET ts == IF timestamp = None THEN GenerateTimestamp(c) ELSE timestamp[1]
        sub == Subdir(subdir, format_ext)
    IN IF Entry(sub, ts) \in plain \cup dirs
       THEN [raised |-> TRUE, out |-> EmptyMap, ts |-> ts, dirs |-> dirs]
       ELSE [raised |-> FALSE,
             out |-> [b \in base_names |-> Path(BaseDir, sub, ts, b, format_ext)],
             ts |-> ts,
             dirs |-> dirs \cup {Entry(sub, ""), Entry(sub, ts)}]

\* ArtifactManager.create_timestamped_paths.  mkdir(parents=True,
\* exist_ok=True) raises FileExistsError when the name is taken by a file.
CreateTimestampedPaths(dirs, plain, c, base_names, timestamp, subdir, format_ext) ==
    LET ts == IF timestamp = None THEN GenerateTimestamp(c) ELSE timestamp[1]
        sub == Subdir(subdir, format_ext)
    IN IF Entry(sub, ts) \in plain
       THEN [raised |-> TRUE, out |-> EmptyMap, ts |-> ts, dirs |-> dirs]
       ELSE [raised |-> FALSE,
             out |-> [b \in base_names |-> Path(BaseDir, sub, ts, b, format_ext)],
             ts |-> ts,
             dirs |-> dirs \cup {Entry(sub, ""), Entry(sub, ts)}]

\* format_dir.iterdir()
Iterdir(dirs, plain, sub) ==
    {e.name : e \in {d \in dirs \cup plain : d.sub = sub /\ d.name # ""}}

\* The loop of get_latest_artifacts and cleanup_old_artifacts that collects
\* timestamp_dirs: directories whose name matches the pattern and parses.
TimestampDirs(dirs, plain, sub) ==
    {n \in Iterdir(dirs, plain, sub) :
        /\ Entry(sub, n) \in dirs
        /\ Matches[n]
        /\ Parses[n]}

\* LatestDir taking the minimum.
LatestDir_Oldest(tds) == CHOOSE n \in tds : \A m \in tds : ~DtBefore[m][n]

\* max(timestamp_dirs, key=lambda x: x[0])
LatestDir(tds) == CHOOSE n \in tds : \A m \in tds : ~DtBefore[n][m]

\* The fallback loop: legacy paths that exist.
LegacyFallback(files, base_names, format_ext) ==
    [b \in {x \in base_names : LegacyPath(x, format_ext) \in files}
        |-> LegacyPath(b, format_ext)]

\* LatestPaths without the test file_path.exists().
LatestPaths_Unchecked(files, sub, latest, base_names, format_ext) ==
    [b \in base_names |-> Path(BaseDir, sub, latest, b, format_ext)]

\* LatestPaths that takes the legacy file of a name the latest directory
\* does not hold.
LatestPaths_LegacyFill(files, sub, latest, base_names, format_ext) ==
    [b \in {x \in base_names : \/ Path(BaseDir, sub, latest, x, format_ext) \in files
                                \/ LegacyPath(x, format_ext) \in files}
        |-> IF Path(BaseDir, sub, latest, b, format_ext) \in files
            THEN Path(BaseDir, sub, latest, b, format_ext)
            ELSE LegacyPath(b, format_ext)]

\* The final loop: the requested files that exist in the latest directory.
LatestPaths(files, sub, latest, base_names, format_ext) ==
    [b \in {x \in base_names : Path(BaseDir, sub, latest, x, format_ext) \in files}
        |-> Path(BaseDir, sub, latest, b, format_ext)]

\* get_latest_artifacts that looks for each name in the newest directory that
\* holds it.
LocalGetLatest_OlderFallback(dirs, plain, files, base_names, subdir, format_ext) ==
    LET sub == Subdir(subdir, format_ext)
        tds == TimestampDirs(dirs, plain, sub)
        holding(b) == {v \in tds : Path(BaseDir, sub, v, b, format_ext) \in files}
    IN IF Entry(sub, "") \notin dirs
       THEN [out |-> EmptyMap, ver |-> "", how |-> "no_format_dir"]
       ELSE IF tds = {}
       THEN [out |-> LegacyFallback(files, base_names, format_ext),
             ver |-> "", how |-> "legacy"]
       ELSE [out |-> [b \in {x \in base_names : holding(x) # {}}
                        |-> Path(BaseDir, sub, LatestDir(holding(b)), b, format_ext)],
             ver |-> LatestDir(tds), how |-> "latest"]

\* ArtifactManager.get_latest_artifacts: the map returned (out), the version
\* it resolved to (ver, empty when none) and the branch taken (how).
LocalGetLatest(dirs, plain, files, base_names, subdir, format_ext) ==
    LET sub == Subdir(subdir, format_ext)
        tds == TimestampDirs(dirs, plain, sub)
    IN IF Entry(sub, "") \notin dirs
       THEN [out |-> EmptyMap, ver |-> "", how |-> "no_format_dir"]
       ELSE IF tds = {}
       THEN [out |-> LegacyFallback(files, base_names, format_ext),
             ver |-> "", how |-> "legacy"]
       ELSE [out |-> LatestPaths(files, sub, LatestDir(tds), base_names, format_ext),
             ver |-> LatestDir(tds), how |-> "latest"]

\* The sort without reverse=True: oldest first.
RECURSIVE SortNewestFirst_OldestFirst(_)
SortNewestFirst_OldestFirst(tds) ==
    IF tds = {} THEN <<>>
    ELSE <<LatestDir_Oldest(tds)>> \o SortNewestFirst_OldestFirst(tds \ {LatestDir_Oldest(tds)})

\* timestamp_dirs.sort(key=lambda x: x[0], reverse=True)
RECURSIVE SortNewestFirst(_)
SortNewestFirst(tds) ==
    IF tds = {} THEN <<>>
    ELSE <<LatestDir(tds)>> \o SortNewestFirst(tds \ {LatestDir(tds)})

\* DirsToRemove keeping one directory more than keep_count.
DirsToRemove_KeepOneMore(dirs, plain, keep_count, subdir, format_ext) ==
    LET sub == Subdir(subdir, format_ext)
        tds == TimestampDirs(dirs, plain, sub)
    IN IF Entry(sub, "") \notin dirs THEN {}
       ELSE IF Cardinality(tds) <= keep_count THEN {}
       ELSE Range(SliceFrom(SortNewestFirst(tds), keep_count + 1))

\* dirs_to_remove of cleanup_old_artifacts; empty on the two early returns.
DirsToRemove(dirs, plain, keep_count, subdir, format_ext) ==
    LET sub == Subdir(subdir, format_ext)
        tds == TimestampDirs(dirs, plain, sub)
    IN IF Entry(sub, "") \notin dirs THEN {}
       ELSE IF Cardinality(tds) <= keep_count THEN {}
       ELSE Range(SliceFrom(SortNewestFirst(tds), keep_count))

\* The files below a version directory.
FilesUnder(files, sub, name) ==
    {f \in files : f.root = BaseDir /\ f.sub = sub /\ f.ver = name}

\* The removal loop without the try/except: the first failure ends it.  No
\* directory is removed when one fails.
RemoveDirs_AbortOnFailure(dirs, files, sub, rm, failed, left) ==
    IF failed = {}
    THEN [dirs |-> {d \in dirs : ~(d.sub = sub /\ d.name \in rm)},
          files |-> {f \in files : ~(f.root = BaseDir /\ f.sub = sub /\ f.ver \in rm)}]
    ELSE [dirs |-> dirs,
          files |-> {f \in files :
                       \/ ~(f.root = BaseDir /\ f.sub = sub /\ f.ver \in failed)
                       \/ f \in left}]

\* The removal loop of cleanup_old_artifacts over dirs_to_remove (rm).
\* shutil.rmtree succeeds on the directories outside failed; on a directory in
\* failed it raises (caught and logged) after removing the files outside left.
RemoveDirs(dirs, files, sub, rm, failed, left) ==
    [dirs |-> {d \in dirs : ~(d.sub = sub /\ d.name \in rm \ failed)},
     files |-> {f \in files :
                  \/ ~(f.root = BaseDir /\ f.sub = sub /\ f.ver \in rm)
                  \/ f.ver \in failed /\ f \in left}]

\* A collection in some order.
RECURSIVE InSomeOrder(_)
InSomeOrder(S) ==
    IF S = {} THEN <<>>
    ELSE LET x == CHOOSE y \in S : TRUE IN <<x>> \o InSomeOrder(S \ {x})

RemoveAt(seq, i) == SubSeq(seq, 1, i - 1) \o SubSeq(seq, i + 1, Len(seq))

\* SortByTimestamp putting the oldest first.
RECURSIVE SortByTimestamp_OldestFirst(_)
SortByTimestamp_OldestFirst(seq) ==
    IF seq = <<>> THEN <<>>
    ELSE LET i == CHOOSE x \in DOMAIN seq :
                    /\ \A y \in DOMAIN seq : ~StrBefore[seq[y][1]][seq[x][1]]
                    /\ \A y \in 1..(x - 1) : StrBefore[seq[x][1]][seq[y][1]]
         IN <<seq[i]>> \o SortByTimestamp_OldestFirst(RemoveAt(seq, i))

\* artifact_info[base_name].sort(key=lambda x: x[0], reverse=True): a stable
\* sort of (timestamp, location) pairs by the timestamp string, greatest first.
RECURSIVE SortByTimestamp(_)
SortByTimestamp(seq) ==
    IF seq = <<>> THEN <<>>
    ELSE LET i == CHOOSE x \in DOMAIN seq :
                    /\ \A y \in DOMAIN seq : ~StrBefore[seq[x][1]][seq[y][1]]
                    /\ \A y \in 1..(x - 1) : StrBefore[seq[y][1]][seq[x][1]]
         IN <<seq[i]>> \o SortByTimestamp(RemoveAt(seq, i))

\* The (timestamp, path) pairs get_artifact_info appends for one ext: the
\* files with suffix .ext in the directories of base_dir/ext whose name
\* matches the pattern.  iterdir gives them in some order.
LocalInfoOf(dirs, plain, files, ext) ==
    IF Entry(ext, "") \notin dirs THEN <<>>
    ELSE InSomeOrder(
           {<<f.ver, f>> : f \in {g \in files :
                                    /\ g.root = BaseDir /\ g.sub = ext
                                    /\ g.ver \in Iterdir(dirs, plain, ext)
                                    /\ Entry(ext, g.ver) \in dirs
                                    /\ Matches[g.ver]
                                    /\ g.ext = ext}})

RECURSIVE Concat(_)
Concat(seqs) == IF seqs = <<>> THEN <<>> ELSE Head(seqs) \o Concat(Tail(seqs))

\* The map get_artifact_info returns from the pairs appended: for every base
\* name that has any, its pairs sorted.
InfoMap(appended) ==
    [b \in {appended[i][2].base : i \in DOMAIN appended} |->
        SortByTimestamp(SelectSeq(appended, LAMBDA x : x[2].base = b))]

\* ArtifactManager.get_artifact_info
LocalListAll(dirs, plain, files) ==
    InfoMap(Concat([i \in DOMAIN FormatExts |-> LocalInfoOf(dirs, plain, files, FormatExts[i])]))

\* ------------------------------------- S3ArtifactManager (object store)
\* The bucket is the set of its keys, as paths.

\* The part of a key after the prefix f"{base_prefix}/{artifact_type}/".
RelativeKey(k) ==
    IF k.ver = "" THEN Chars(k.base) \o <<Dot>> \o Chars(k.ext)
    ELSE Chars(k.ver) \o <<Slash>> \o Chars(k.base) \o <<Dot>> \o Chars(k.ext)

\* The keys that can occur under a prefix, and the order in which
\* list_objects_v2 returns them: by the code points of the key.
KeysUnder(artifact_type) ==
    {Path(BasePrefix, artifact_type, v, b, e) :
        v \in DirNames \cup {""}, b \in BaseNames, e \in Exts}
KeySpace ==
    UNION {KeysUnder(at) : at \in ArtifactTypes}
    \cup {Path(BasePrefix, s, v, b, e) :
            s \in AllSubs, v \in DirNames \cup {""}, b \in BaseNames, e \in AllExts}
KeyBefore ==
    [k \in KeySpace |-> [j \in KeySpace |-> StrLess(RelativeKey(k), RelativeKey(j))]]

RECURSIVE InKeyOrder(_)
InKeyOrder(ks) ==
    IF ks = {} THEN <<>>
    ELSE LET first == CHOOSE k \in ks : \A j \in ks : ~KeyBefore[j][k]
         IN <<first>> \o InKeyOrder(ks \ {first})

\* The pages paginator.paginate makes of n keys (one request at least), and
\* the keys of page p of the listing.
NumPages(n) == IF n = 0 THEN 1 ELSE (n + PageSize - 1) \div PageSize
Page(listed, p) ==
    {listed[i] : i \in {x \in DOMAIN listed : (x - 1) \div PageSize + 1 = p}}

\* The requests that can fail when the keys under a prefix are listed: none
\* (0), or the request for one of the pages.
FailPages(keys, artifact_type) ==
    0..NumPages(Cardinality({k \in keys : k.root = BasePrefix /\ k.sub = artifact_type}))

\* list_keys that returns the pages read when a request fails.
ListKeys_PagesSoFar(keys, artifact_type, failPage) ==
    LET listed == InKeyOrder({k \in keys : k.root = BasePrefix /\ k.sub = artifact_type})
        last == IF failPage = 0 THEN NumPages(Len(listed)) ELSE failPage - 1
    IN [raised |-> FALSE, keys |-> UNION {Page(listed, p) : p \in 1..last}]

\* s3_io.list_keys(prefix) for prefix f"{base_prefix}/{artifact_type}/": the
\* keys of every page, or, when the request for page failPage fails, the
\* paginator's exception re-raised and the pages read so far dropped.
ListKeys(keys, artifact_type, failPage) ==
    LET listed == InKeyOrder({k \in keys : k.root = BasePrefix /\ k.sub = artifact_type})
    IN IF failPage \in 1..NumPages(Len(listed))
       THEN [raised |-> TRUE, keys |-> {}]
       ELSE [raised |-> FALSE,
             keys |-> UNION {Page(listed, p) : p \in 1..NumPages(Len(listed))}]

\* create_s3_paths that leaves the artifact type out of the key.
CreateS3Paths_NoType(c, base_names, timestamp, artifact_type, format_ext) ==
    LET ts == IF timestamp = None THEN GenerateTimestamp(c) ELSE timestamp[1]
    IN [raised |-> FALSE,
        out |-> [b \in base_names |-> Path(BasePrefix, "", ts, b, format_ext)],
        ts |-> ts]

\* S3ArtifactManager.create_s3_paths: computes keys, touches nothing.
CreateS3Paths(c, base_names, timestamp, artifact_type, format_ext) ==
    LET ts == IF timestamp = None THEN GenerateTimestamp(c) ELSE timestamp[1]
    IN [raised |-> FALSE,
        out |-> [b \in base_names |-> Path(BasePrefix, artifact_type, ts, b, format_ext)],
        ts |-> ts]

\* S3TimestampDirs without the pattern match.
S3TimestampDirs_NoPattern(all_keys) ==
    {k.ver : k \in {x \in all_keys : x.ver # ""}}

\* The loop that collects timestamp_dirs from a listing: the first segment of
\* every key that has one ('/' in relative_key), when it matches the pattern.
S3TimestampDirs(all_keys) ==
    {k.ver : k \in {x \in all_keys : x.ver # "" /\ Matches[x.ver]}}

\* S3LatestPaths returning the keys relative to base_prefix.
S3LatestPaths_Relative(all_keys, artifact_type, latest, base_names, format_ext) ==
    [b \in {x \in base_names :
              Path(BasePrefix, artifact_type, latest, x, format_ext) \in all_keys}
        |-> Path("", artifact_type, latest, b, format_ext)]

\* The final loop: the requested keys that are in the listing.
S3LatestPaths(all_keys, artifact_type, latest, base_names, format_ext) ==
    [b \in {x \in base_names :
              Path(BasePrefix, artifact_type, latest, x, format_ext) \in all_keys}
        |-> Path(BasePrefix, artifact_type, latest, b, format_ext)]

\* S3ArtifactManager.get_latest_artifacts.  raised tells whether the call
\* ends in an exception.
S3GetLatest(keys, base_names, artifact_type, format_ext, failPage) ==
    LET listing == ListKeys(keys, artifact_type, failPage)
        tds == S3TimestampDirs(listing.keys)
    IN IF listing.raised
       THEN [out |-> EmptyMap, ver |-> "", how |-> "list_failed", raised |-> FALSE]
       ELSE IF tds = {}
       THEN [out |-> EmptyMap, ver |-> "", how |-> "no_version", raised |-> FALSE]
       ELSE [out |-> S3LatestPaths(listing.keys, artifact_type, StrMax(tds),
                                   base_names, format_ext),
             ver |-> StrMax(tds), how |-> "latest", raised |-> FALSE]

\* The (timestamp, key) pairs get_artifact_info appends for one ext, from the
\* listing of f"{base_prefix}/{ext}/": none when the listing fails
\* ("except ... continue").
S3InfoOf(keys, ext, failPage) ==
    LET listing == ListKeys(keys, ext, failPage)
        found == SelectSeq(InKeyOrder(listing.keys),
                           LAMBDA k : k.ver # "" /\ Matches[k.ver] /\ k.ext = ext)
    IN IF listing.raised THEN <<>>
       ELSE [i \in DOMAIN found |-> <<found[i].ver, found[i]>>]

\* S3ArtifactManager.get_artifact_info; failPages gives for each ext the
\* request of its listing that fails (0: none).
S3ListAll(keys, failPages) ==
    InfoMap(Concat([i \in DOMAIN FormatExts |-> S3InfoOf(keys, FormatExts[i], failPages[i])]))

\* sorted(timestamp_dirs, reverse=True)
RECURSIVE SortedReverse(_)
SortedReverse(tds) ==
    IF tds = {} THEN <<>>
    ELSE <<StrMax(tds)>> \o SortedReverse(tds \ {StrMax(tds)})

\* OldTimestamps without the early return, keeping one version less.
OldTimestamps_KeepOneLess(keys, artifact_type, keep_count, failPage) ==
    LET listing == ListKeys(keys, artifact_type, failPage)
        tds == S3TimestampDirs(listing.keys)
    IN IF listing.raised \/ keep_count <= 0 THEN {}
       ELSE Range(SliceFrom(SortedReverse(tds), keep_count - 1))

\* old_timestamps of cleanup_old_artifacts; empty on the two early returns.
OldTimestamps(keys, artifact_type, keep_count, failPage) ==
    LET listing == ListKeys(keys, artifact_type, failPage)
        tds == S3TimestampDirs(listing.keys)
    IN IF listing.raised THEN {}
       ELSE IF Cardinality(tds) <= keep_count THEN {}
       ELSE Range(SliceFrom(SortedReverse(tds), keep_count))

\* keys_to_delete without the test key.startswith(old_prefix): the whole
\* listing, when there is an old timestamp.
KeysToDelete_WholeListing(keys, artifact_type, keep_count, failPage) ==
    IF OldTimestamps(keys, artifact_type, keep_count, failPage) = {} THEN {}
    ELSE ListKeys(keys, artifact_type, failPage).keys

\* keys_to_delete, over all old timestamps: key.startswith(old_prefix).
KeysToDelete(keys, artifact_type, keep_count, failPage) ==
    LET old == OldTimestamps(keys, artifact_type, keep_count, failPage)
    IN {k \in ListKeys(keys, artifact_type, failPage).keys : k.ver \in old}

\* The deletion loop of cleanup_old_artifacts over keys_to_delete (del):
\* delete_key raises on the keys in failed (caught and logged) and removes the
\* others.  The call never ends in an exception.
DeleteKeys(keys, del, failed) ==
    [keys |-> keys \ (del \ failed), raised |-> FALSE]

\* ------------------------------------------------------------------ state
VARIABLES
    backend,    \* the managers in use: "local" (ArtifactManager), "s3" or "both"
    cap,        \* how many directory names and key prefixes may be in use
    clock,      \* the wall clock, in seconds after the epoch of Now
    ldirs,      \* local: the directories under base_dir
    lplain,     \* local: plain files that are children of a format directory
    lfiles,     \* local: the files (in version directories, and legacy files)
    s3keys,     \* object store: the keys of the bucket
    ret,        \* the call that has just returned: its arguments and its result
    runs,       \* concurrent producers: where each is in its run, and what it holds
    wrote       \* which concurrent producer wrote an artifact last

vars == <<base_dir, backend, cap, clock, ldirs, lplain, lfiles, s3keys, ret, runs, wrote>>

NoRet ==
    [op |-> "none", on |-> "", names |-> {}, sub |-> "", ext |-> "", keep |-> 0,
     out |-> EmptyMap, ver |-> "", how |-> "", raised |-> FALSE, listFailed |-> FALSE,
     failedAt |-> 0,
     attempted |-> {}, failed |-> {}, info |-> <<>>]

\* The concurrent producers, and a producer that is not running.
Producers == {"p1", "p2"}
NoRun ==
    [pc |-> "off", names |-> {}, at |-> 0, ts |-> "", out |-> EmptyMap,
     raised |-> FALSE, left |-> {},
     keep |-> 0, listing |-> {}, after |-> None, listFailed |-> FALSE,
     todo |-> <<>>, failed |-> {}]

\* The directory names and key prefixes in use.
InUse ==
    {<<e.sub, e.name>> : e \in {d \in ldirs \cup lplain : d.name # ""}}
    \cup {<<k.sub, k.ver>> : k \in {x \in s3keys : x.ver # ""}}

Room(sub, name) == <<sub, name>> \in InUse \/ Cardinality(InUse) < cap

Init ==
    /\ backend \in {"local", "s3"}
    /\ base_dir = DefaultBaseDir
    /\ cap = MaxDirs
    /\ clock = 0
    /\ ldirs = {}
    /\ lplain = {}
    /\ lfiles = {}
    /\ s3keys = {}
    /\ ret = NoRet
    /\ runs = [p \in Producers |-> NoRun]
    /\ wrote = {}

\* All operations are synchronous: a call is made when no result is pending.
Idle == ret = NoRet

\* The caller takes the result of the call that has just returned.
Done ==
    /\ ret # NoRet
    /\ ret' = NoRet
    /\ UNCHANGED <<runs, wrote, base_dir, backend, cap, clock, ldirs, lplain, lfiles, s3keys>>

\* Time passes.
Tick ==
    /\ Idle
    /\ clock < MaxClock
    /\ clock' = clock + 1
    /\ UNCHANGED <<runs, wrote, base_dir, backend, cap, ldirs, lplain, lfiles, s3keys, ret>>

\* generate_timestamp is called on the manager of backend on.
GenerateTimestampCall(on) ==
    /\ Idle
    /\ backend \in {on, "both"}
    /\ ret' = [NoRet EXCEPT !.op = "generate_timestamp", !.on = on,
                            !.ver = GenerateTimestamp(clock)]
    /\ UNCHANGED <<runs, wrote, base_dir, backend, cap, clock, ldirs, lplain, lfiles, s3keys>>

\* A producer calls ArtifactManager.create_timestamped_paths.
LocalCreatePaths(base_names, timestamp, subdir, format_ext) ==
    LET r == CreateTimestampedPaths(ldirs, lplain, clock, base_names, timestamp,
                                    subdir, format_ext)
    IN /\ Idle
       /\ backend \in {"local", "both"}
       /\ Room(Subdir(subdir, format_ext), r.ts)
       /\ ldirs' = r.dirs
       /\ ret' = [NoRet EXCEPT !.op = "create_paths", !.on = "local",
                               !.names = base_names,
                               !.ext = format_ext, !.sub = Subdir(subdir, format_ext),
                               !.out = r.out, !.ver = r.ts, !.raised = r.raised]
       /\ UNCHANGED <<runs, wrote, base_dir, backend, cap, clock, lplain, lfiles, s3keys>>

\* create_s3_paths that puts an empty object at the first key it returns.
S3CreatePaths_Touch(base_names, timestamp, artifact_type, format_ext) ==
    LET r == CreateS3Paths(clock, base_names, timestamp, artifact_type, format_ext)
    IN /\ Idle
       /\ backend \in {"s3", "both"}
       /\ s3keys' = s3keys \cup {Path(BasePrefix, artifact_type, r.ts, "X_train", format_ext)}
       /\ ret' = [NoRet EXCEPT !.op = "create_paths", !.on = "s3",
                               !.names = base_names,
                               !.ext = format_ext, !.sub = artifact_type,
                               !.out = r.out, !.ver = r.ts]
       /\ UNCHANGED <<runs, wrote, base_dir, backend, cap, clock, ldirs, lplain, lfiles>>

\* A producer calls S3ArtifactManager.create_s3_paths.
S3CreatePaths(base_names, timestamp, artifact_type, format_ext) ==
    LET r == CreateS3Paths(clock, base_names, timestamp, artifact_type, format_ext)
    IN /\ Idle
       /\ backend \in {"s3", "both"}
       /\ ret' = [NoRet EXCEPT !.op = "create_paths", !.on = "s3",
                               !.names = base_names,
                               !.ext = format_ext, !.sub = artifact_type,
                               !.out = r.out, !.ver = r.ts]
       /\ UNCHANGED <<runs, wrote, base_dir, backend, cap, clock, ldirs, lplain, lfiles, s3keys>>

\* A producer writes one artifact at a path that create_timestamped_paths
\* returns for the directory; the directory has to exist.
LocalWrite(sub, ver, base, ext) ==
    /\ Idle
    /\ backend \in {"local", "both"}
    /\ Entry(sub, ver) \in ldirs
    /\ lfiles' = lfiles \cup {Path(BaseDir, sub, ver, base, ext)}
    /\ ret' = [NoRet EXCEPT !.op = "write"]
    /\ UNCHANGED <<runs, wrote, base_dir, backend, cap, clock, ldirs, lplain, s3keys>>

\* A producer puts one artifact at a key that create_s3_paths returns.
S3Write(artifact_type, ver, base, ext) ==
    /\ Idle
    /\ backend \in {"s3", "both"}
    /\ Room(artifact_type, ver)
    /\ s3keys' = s3keys \cup {Path(BasePrefix, artifact_type, ver, base, ext)}
    /\ ret' = [NoRet EXCEPT !.op = "write"]
    /\ UNCHANGED <<runs, wrote, base_dir, backend, cap, clock, ldirs, lplain, lfiles>>

\* The data pipeline writes a file of the flat layout, artifacts/data/.
WriteLegacy(base, ext) ==
    /\ Idle
    /\ backend \in {"local", "both"}
    /\ lfiles' = lfiles \cup {LegacyPath(base, ext)}
    /\ ret' = [NoRet EXCEPT !.op = "write_legacy"]
    /\ UNCHANGED <<runs, wrote, base_dir, backend, cap, clock, ldirs, lplain, s3keys>>

\* Something else leaves a plain file in a format directory.
TouchPlain(sub, name) ==
    /\ Idle
    /\ backend \in {"local", "both"}
    /\ Entry(sub, "") \in ldirs
    /\ Entry(sub, name) \notin ldirs
    /\ Room(sub, name)
    /\ lplain' = lplain \cup {Entry(sub, name)}
    /\ ret' = [NoRet EXCEPT !.op = "touch"]
    /\ UNCHANGED <<runs, wrote, base_dir, backend, cap, clock, ldirs, lfiles, s3keys>>

\* Something else puts a key directly under a prefix, with no version segment.
S3PutDirect(artifact_type, base, ext) ==
    /\ Idle
    /\ backend \in {"s3", "both"}
    /\ s3keys' = s3keys \cup {Path(BasePrefix, artifact_type, "", base, ext)}
    /\ ret' = [NoRet EXCEPT !.op = "put_direct"]
    /\ UNCHANGED <<runs, wrote, base_dir, backend, cap, clock, ldirs, lplain, lfiles>>

\* get_latest_artifacts that makes the format directory when it is missing.
LocalGetLatestCall_Mkdir(base_names, subdir, format_ext) ==
    LET r == LocalGetLatest(ldirs, lplain, lfiles, base_names, subdir, format_ext)
    IN /\ Idle
       /\ backend \in {"local", "both"}
       /\ ldirs' = ldirs \cup {Entry(Subdir(subdir, format_ext), "")}
       /\ ret' = [NoRet EXCEPT !.op = "get_latest", !.on = "local",
                               !.names = base_names,
                               !.ext = format_ext, !.sub = Subdir(subdir, format_ext),
                               !.out = r.out, !.ver = r.ver, !.how = r.how]
       /\ UNCHANGED <<runs, wrote, base_dir, backend, cap, clock, lplain, lfiles, s3keys>>

\* A consumer calls ArtifactManager.get_latest_artifacts.
LocalGetLatestCall(base_names, subdir, format_ext) ==
    LET r == LocalGetLatest(ldirs, lplain, lfiles, base_names, subdir, format_ext)
    IN /\ Idle
       /\ backend \in {"local", "both"}
       /\ ret' = [NoRet EXCEPT !.op = "get_latest", !.on = "local",
                               !.names = base_names,
                               !.ext = format_ext, !.sub = Subdir(subdir, format_ext),
                               !.out = r.out, !.ver = r.ver, !.how = r.how]
       /\ UNCHANGED <<runs, wrote, base_dir, backend, cap, clock, ldirs, lplain, lfiles, s3keys>>

\* A consumer calls S3ArtifactManager.get_latest_artifacts; the listing may fail.
S3GetLatestCall(base_names, artifact_type, format_ext, failPage) ==
    LET r == S3GetLatest(s3keys, base_names, artifact_type, format_ext, failPage)
    IN /\ Idle
       /\ backend \in {"s3", "both"}
       /\ ret' = [NoRet EXCEPT !.op = "get_latest", !.on = "s3",
                               !.names = base_names,
                               !.ext = format_ext, !.sub = artifact_type,
                               !.out = r.out, !.ver = r.ver, !.how = r.how,
                               !.raised = r.raised, !.listFailed = (failPage # 0),
                               !.failedAt = failPage]
       /\ UNCHANGED <<runs, wrote, base_dir, backend, cap, clock, ldirs, lplain, lfiles, s3keys>>

\* ArtifactManager.cleanup_old_artifacts is called; rmtree may fail on some
\* directories, each time leaving any part of the directory's files.
LocalCleanupCall(keep_count, subdir, format_ext) ==
    /\ Idle
    /\ backend \in {"local", "both"}
    /\ LET sub == Subdir(subdir, format_ext)
           rm == DirsToRemove(ldirs, lplain, keep_count, subdir, format_ext)
       IN \E failed \in SUBSET rm :
            \E left \in SUBSET UNION {FilesUnder(lfiles, sub, n) : n \in failed} :
              LET r == RemoveDirs(ldirs, lfiles, sub, rm, failed, left)
              IN /\ ldirs' = r.dirs
                 /\ lfiles' = r.files
                 /\ ret' = [NoRet EXCEPT !.op = "cleanup", !.on = "local",
                                         !.keep = keep_count,
                                         !.ext = format_ext, !.sub = sub,
                                         !.attempted = rm, !.failed = failed]
    /\ UNCHANGED <<runs, wrote, base_dir, backend, cap, clock, lplain, s3keys>>

\* S3ArtifactManager.cleanup_old_artifacts is called; the listing may fail, and
\* delete_key may fail on some keys.
S3CleanupCall(artifact_type, keep_count, failPage) ==
    /\ Idle
    /\ backend \in {"s3", "both"}
    /\ LET del == KeysToDelete(s3keys, artifact_type, keep_count, failPage)
       IN \E failed \in SUBSET del :
            LET r == DeleteKeys(s3keys, del, failed)
            IN /\ s3keys' = r.keys
               /\ ret' = [NoRet EXCEPT !.op = "cleanup", !.on = "s3",
                                       !.keep = keep_count,
                                       !.sub = artifact_type,
                                       !.attempted = del, !.failed = failed,
                                       !.raised = r.raised, !.listFailed = (failPage # 0),
                               !.failedAt = failPage]
    /\ UNCHANGED <<runs, wrote, base_dir, backend, cap, clock, ldirs, lplain, lfiles>>

\* An auditor calls ArtifactManager.get_artifact_info.
LocalListAllCall ==
    /\ Idle
    /\ backend \in {"local", "both"}
    /\ ret' = [NoRet EXCEPT !.op = "list_all", !.on = "local",
                            !.info = LocalListAll(ldirs, lplain, lfiles)]
    /\ UNCHANGED <<runs, wrote, base_dir, backend, cap, clock, ldirs, lplain, lfiles, s3keys>>

\* An auditor calls S3ArtifactManager.get_artifact_info; each of its two
\* listings may fail.
S3ListAllCall(failPages) ==
    /\ Idle
    /\ backend \in {"s3", "both"}
    /\ ret' = [NoRet EXCEPT !.op = "list_all", !.on = "s3",
                            !.info = S3ListAll(s3keys, failPages),
                            !.listFailed = (failPages # <<0, 0>>)]
    /\ UNCHANGED <<runs, wrote, base_dir, backend, cap, clock, ldirs, lplain, lfiles, s3keys>>

TimestampArgs == {None} \cup {Some(n) : n \in DirNames}
CreateNameSets == {BaseNames, {"X_train"}, {}}
KeepCounts == (0 - 1)..MaxKeep
PlainNames == {Stamp[0]}

Next ==
    \/ Done
    \/ Tick
    \/ \E on \in {"local", "s3"} : GenerateTimestampCall(on)
    \/ \E ns \in CreateNameSets, t \in TimestampArgs, sd \in SubdirArgs, e \in Exts :
          LocalCreatePaths(ns, t, sd, e)
    \/ \E ns \in CreateNameSets, t \in TimestampArgs, at \in ArtifactTypes, e \in Exts :
          S3CreatePaths(ns, t, at, e)
    \/ \E e \in Exts, n \in DirNames, b \in BaseNames : LocalWrite(e, n, b, e)
    \/ \E at \in ArtifactTypes, n \in DirNames, b \in BaseNames, e \in Exts :
          S3Write(at, n, b, e)
    \/ \E b \in BaseNames, e \in Exts : WriteLegacy(b, e)
    \/ \E e \in Exts, n \in PlainNames : TouchPlain(e, n)
    \/ \E at \in ArtifactTypes, e \in Exts : S3PutDirect(at, "X_train", e)
    \/ \E ns \in NameSets, sd \in SubdirArgs, e \in Exts : LocalGetLatestCall(ns, sd, e)
    \/ \E ns \in NameSets, at \in ArtifactTypes, e \in Exts :
          \E lf \in FailPages(s3keys, at) : S3GetLatestCall(ns, at, e, lf)
    \/ LocalListAllCall
    \/ \E fc \in FailPages(s3keys, FormatExts[1]), fp \in FailPages(s3keys, FormatExts[2]) :
          S3ListAllCall(<<fc, fp>>)
    \/ \E k \in KeepCounts, sd \in SubdirArgs, e \in Exts : LocalCleanupCall(k, sd, e)
    \/ \E at \in ArtifactTypes, k \in KeepCounts :
          \E lf \in FailPages(s3keys, at) : S3CleanupCall(at, k, lf)

Spec == Init /\ [][Next]_vars

\* The same program with room for one more directory name or key prefix.
InitWide ==
    /\ backend \in {"local", "s3"}
    /\ base_dir = DefaultBaseDir
    /\ cap = MaxDirs + 1
    /\ clock = 0
    /\ ldirs = {}
    /\ lplain = {}
    /\ lfiles = {}
    /\ s3keys = {}
    /\ ret = NoRet
    /\ runs = [p \in Producers |-> NoRun]
    /\ wrote = {}

SpecWide == InitWide /\ [][Next]_vars

\* The same program with both managers in use, each on its own store.
InitBoth ==
    /\ backend = "both"
    /\ base_dir = DefaultBaseDir
    /\ cap = MaxDirs
    /\ clock = 0
    /\ ldirs = {}
    /\ lplain = {}
    /\ lfiles = {}
    /\ s3keys = {}
    /\ ret = NoRet
    /\ runs = [p \in Producers |-> NoRun]
    /\ wrote = {}

SpecBoth == InitBoth /\ [][Next]_vars

\* The local manager constructed with the default base directory or with
\* another one: ArtifactManager(base_dir=...).
BaseDirs == {DefaultBaseDir, "artifacts"}

InitBases ==
    /\ base_dir \in BaseDirs
    /\ backend = "local"
    /\ cap = MaxDirs
    /\ clock = 0
    /\ ldirs = {}
    /\ lplain = {}
    /\ lfiles = {}
    /\ s3keys = {}
    /\ ret = NoRet
    /\ runs = [p \in Producers |-> NoRun]
    /\ wrote = {}

NextLocal ==
    \/ Done
    \/ Tick
    \/ GenerateTimestampCall("local")
    \/ \E ns \in CreateNameSets, t \in TimestampArgs, sd \in SubdirArgs, e \in Exts :
          LocalCreatePaths(ns, t, sd, e)
    \/ \E e \in Exts, n \in DirNames, b \in BaseNames : LocalWrite(e, n, b, e)
    \/ \E b \in BaseNames, e \in Exts : WriteLegacy(b, e)
    \/ \E e \in Exts, n \in PlainNames : TouchPlain(e, n)
    \/ \E ns \in NameSets, sd \in SubdirArgs, e \in Exts : LocalGetLatestCall(ns, sd, e)
    \/ LocalListAllCall
    \/ \E k \in KeepCounts, sd \in SubdirArgs, e \in Exts : LocalCleanupCall(k, sd, e)

SpecBases == InitBases /\ [][NextLocal]_vars

\* ------------------------------------------------- concurrent producers
\* Two producer runs on one manager.  A run calls create_paths without a
\* version and then writes an artifact at each location returned, in any
\* order; the steps of the two runs interleave.  The call is split where it
\* reads the clock (generate_timestamp) and where it makes the directory.

\* "if timestamp is None: timestamp = self.generate_timestamp()"
ProducerStamp(p, base_names) ==
    /\ runs[p].pc = "start"
    /\ runs' = [runs EXCEPT ![p] = [@ EXCEPT !.pc = "stamped", !.names = base_names,
                                              !.at = clock,
                                              !.ts = GenerateTimestamp(clock)]]
    /\ UNCHANGED <<wrote, base_dir, backend, cap, clock, ldirs, lplain, lfiles, s3keys, ret>>

\* The rest of create_paths with mkdir(exist_ok=False): it raises when the
\* other run has made the directory.
ProducerPaths_Exclusive(p, format_ext) ==
    LET r == CreateTimestampedPaths_ExistNotOk(ldirs, lplain, clock, runs[p].names,
                                               Some(runs[p].ts), None, format_ext)
    IN /\ runs[p].pc = "stamped"
       /\ backend = "local"
       /\ ldirs' = r.dirs
       /\ runs' = [runs EXCEPT ![p] = [@ EXCEPT
                     !.pc = IF r.raised \/ r.out = EmptyMap THEN "done" ELSE "write",
                     !.out = r.out, !.raised = r.raised, !.left = DOMAIN r.out]]
       /\ UNCHANGED <<wrote, base_dir, backend, cap, clock, lplain, lfiles, s3keys, ret>>

\* The rest of create_paths: the directory (local) and the map returned.
ProducerPaths(p, format_ext) ==
    LET r == IF backend = "local"
             THEN CreateTimestampedPaths(ldirs, lplain, clock, runs[p].names,
                                         Some(runs[p].ts), None, format_ext)
             ELSE CreateS3Paths(clock, runs[p].names, Some(runs[p].ts),
                                DefaultArtifactType, format_ext)
    IN /\ runs[p].pc = "stamped"
       /\ ldirs' = IF backend = "local" THEN r.dirs ELSE ldirs
       /\ runs' = [runs EXCEPT ![p] = [@ EXCEPT
                     !.pc = IF r.raised \/ r.out = EmptyMap THEN "done" ELSE "write",
                     !.out = r.out, !.raised = r.raised, !.left = DOMAIN r.out]]
       /\ UNCHANGED <<wrote, base_dir, backend, cap, clock, lplain, lfiles, s3keys, ret>>

\* The run writes the artifact of base name b at the location it was given.
ProducerWrite(p, b) ==
    /\ runs[p].pc = "write"
    /\ b \in runs[p].left
    /\ IF backend = "local"
       THEN lfiles' = lfiles \cup {runs[p].out[b]} /\ UNCHANGED s3keys
       ELSE s3keys' = s3keys \cup {runs[p].out[b]} /\ UNCHANGED lfiles
    /\ wrote' = {w \in wrote : w.at # runs[p].out[b]} \cup {[at |-> runs[p].out[b], by |-> p]}
    /\ runs' = [runs EXCEPT ![p] = [@ EXCEPT
                  !.left = @ \ {b},
                  !.pc = IF runs[p].left = {b} THEN "done" ELSE "write"]]
    /\ UNCHANGED <<base_dir, backend, cap, clock, ldirs, lplain, ret>>

\* Time passes between the steps of the runs.
RaceTick ==
    /\ clock < MaxClock
    /\ clock' = clock + 1
    /\ UNCHANGED <<runs, wrote, base_dir, backend, cap, ldirs, lplain, lfiles, s3keys, ret>>

RaceNameSets == {BaseNames, {"X_train"}}

InitRace ==
    /\ backend \in {"local", "s3"}
    /\ base_dir = DefaultBaseDir
    /\ cap = MaxDirs
    /\ clock = 0
    /\ ldirs = {}
    /\ lplain = {}
    /\ lfiles = {}
    /\ s3keys = {}
    /\ ret = NoRet
    /\ runs = [p \in Producers |-> [NoRun EXCEPT !.pc = "start"]]
    /\ wrote = {}

NextRace ==
    \/ RaceTick
    \/ \E p \in Producers, ns \in RaceNameSets : ProducerStamp(p, ns)
    \/ \E p \in Producers, e \in Exts : ProducerPaths(p, e)
    \/ \E p \in Producers, b \in BaseNames : ProducerWrite(p, b)

SpecRace == InitRace /\ [][NextRace]_vars

\* ------------------------------------------------------------- the audit
\* get_artifact_info on stores that hold files and keys of every kind: under
\* format subdirs and under others, with known extensions and with others.
MaxFiles == 2

AuditLocations(root) ==
    {Path(root, s, v, b, e) : s \in AllSubs, v \in DirNames, b \in BaseNames, e \in AllExts}
\* The subsets of S of at most n elements.
RECURSIVE UpTo(_, _)
UpTo(S, n) ==
    IF n = 0 THEN {{}}
    ELSE UpTo(S, n - 1) \cup {t \cup {x} : t \in UpTo(S, n - 1), x \in S}
AuditStores(root) == UpTo(AuditLocations(root), MaxFiles)

\* The directories files lie in.
DirsOf(files) ==
    {Entry(f.sub, "") : f \in files} \cup {Entry(f.sub, f.ver) : f \in files}

InitAudit ==
    /\ backend \in {"local", "s3"}
    /\ base_dir = DefaultBaseDir
    /\ cap = MaxDirs
    /\ clock = 0
    /\ lplain = {}
    /\ lfiles \in (IF backend = "local" THEN AuditStores(BaseDir) ELSE {{}})
    /\ ldirs = DirsOf(lfiles)
    /\ s3keys \in (IF backend = "s3" THEN AuditStores(BasePrefix) ELSE {{}})
    /\ ret = NoRet
    /\ runs = [p \in Producers |-> NoRun]
    /\ wrote = {}

NextAudit ==
    \/ Done
    \/ LocalListAllCall
    \/ \E fc \in FailPages(s3keys, FormatExts[1]), fp \in FailPages(s3keys, FormatExts[2]) :
          S3ListAllCall(<<fc, fp>>)

SpecAudit == InitAudit /\ [][NextAudit]_vars

\* ------------------------------------------------ cleanup on mixed stores
\* cleanup_old_artifacts on stores that hold, next to the versions of the
\* subdir or artifact type cleaned, versions of other subdirs and artifact
\* types, entries whose names do not match, legacy files (local) and keys
\* directly under a prefix (object store).
FrameStores(on) ==
    IF on = "local"
    THEN UpTo(AuditLocations(BaseDir) \cup {LegacyPath(b, "csv") : b \in BaseNames}, MaxFiles)
    ELSE UpTo(AuditLocations(BasePrefix)
              \cup {Path(BasePrefix, s, "", "X_train", "csv") : s \in AllSubs}, MaxFiles)

InitFrame ==
    /\ base_dir = DefaultBaseDir
    /\ backend \in {"local", "s3"}
    /\ cap = MaxDirs
    /\ clock = 0
    /\ lplain = {}
    /\ lfiles \in (IF backend = "local" THEN FrameStores("local") ELSE {{}})
    /\ ldirs = DirsOf({f \in lfiles : f.root = BaseDir})
    /\ s3keys \in (IF backend = "s3" THEN FrameStores("s3") ELSE {{}})
    /\ ret = NoRet
    /\ runs = [p \in Producers |-> NoRun]
    /\ wrote = {}

NextFrame ==
    \/ Done
    \/ \E k \in KeepCounts, s \in AllSubs, e \in Exts : LocalCleanupCall(k, Some(s), e)
    \/ \E at \in AllSubs, k \in KeepCounts :
          \E lf \in FailPages(s3keys, at) : S3CleanupCall(at, k, lf)

SpecFrame == InitFrame /\ [][NextFrame]_vars

\* ---------------------------------------- overlapping sweeps (object store)
\* Two calls of S3ArtifactManager.cleanup_old_artifacts run at the same time
\* on one bucket.  A call is split at its requests to the store: one
\* list_objects_v2 request per page, one delete_object request per key.

\* One request of the paginator: the first PageSize keys under the prefix
\* after the continuation token (after), and whether the listing is truncated.
ListPage(keys, artifact_type, after) ==
    LET rest == InKeyOrder({k \in keys :
                              /\ k.root = BasePrefix /\ k.sub = artifact_type
                              /\ (after = None \/ KeyBefore[after[1]][k])})
        n == IF Len(rest) < PageSize THEN Len(rest) ELSE PageSize
    IN [keys |-> {rest[i] : i \in 1..n},
        last |-> IF n = 0 THEN after ELSE Some(rest[n]),
        more |-> Len(rest) > PageSize]

\* The keys the deletion loops go through, in their order: old timestamps
\* newest first, and under each the keys of the listing that start with it.
RECURSIVE DeleteOrder(_, _)
DeleteOrder(all_keys, old) ==
    IF old = <<>> THEN <<>>
    ELSE InKeyOrder({k \in all_keys : k.ver = Head(old)}) \o DeleteOrder(all_keys, Tail(old))

\* old_timestamps, from a listing that succeeded.
OldOf(all_keys, keep_count) ==
    LET tds == S3TimestampDirs(all_keys)
    IN IF Cardinality(tds) <= keep_count THEN <<>>
       ELSE SliceFrom(SortedReverse(tds), keep_count)

\* s3_io.delete_key: delete_object removes the key if it is there and
\* succeeds if it is not; the request may fail, and the error is re-raised.
DeleteKey(keys, key, fails) ==
    [keys |-> IF fails THEN keys ELSE keys \ {key}, raised |-> fails]

Sweepers == {"c1", "c2"}

\* cleanup_old_artifacts is called.
SweepCall(c, keep_count) ==
    /\ runs[c].pc = "start"
    /\ runs' = [runs EXCEPT ![c] = [@ EXCEPT !.pc = "list", !.keep = keep_count]]
    /\ UNCHANGED <<wrote, base_dir, backend, cap, clock, ldirs, lplain, lfiles, s3keys, ret>>

\* One page of "all_keys = list_keys(prefix=prefix)".  A failed request ends
\* the call ("except ... return"); the last page ends the listing, and the
\* keys to delete are worked out from it.
SweepListPage(c, artifact_type, fails) ==
    LET page == ListPage(s3keys, artifact_type, runs[c].after)
        all_keys == runs[c].listing \cup page.keys
        todo == DeleteOrder(all_keys, OldOf(all_keys, runs[c].keep))
    IN /\ runs[c].pc = "list"
       /\ runs' = [runs EXCEPT ![c] =
                     IF fails
                     THEN [@ EXCEPT !.pc = "done", !.listFailed = TRUE, !.listing = {}]
                     ELSE IF page.more
                     THEN [@ EXCEPT !.listing = all_keys, !.after = page.last]
                     ELSE [@ EXCEPT !.listing = all_keys, !.after = page.last,
                                    !.todo = todo,
                                    !.pc = IF todo = <<>> THEN "done" ELSE "delete"]]
       /\ UNCHANGED <<wrote, base_dir, backend, cap, clock, ldirs, lplain, lfiles, s3keys, ret>>

\* One turn of the deletion loop with the try/except left out: the error of
\* a failed request ends the call.
SweepDelete_Uncaught(c, fails) ==
    LET key == Head(runs[c].todo)
        r == DeleteKey(s3keys, key, fails)
    IN /\ runs[c].pc = "delete"
       /\ s3keys' = r.keys
       /\ runs' = [runs EXCEPT ![c] = [@ EXCEPT
                     !.todo = Tail(@),
                     !.failed = IF r.raised THEN @ \cup {key} ELSE @,
                     !.raised = r.raised,
                     !.pc = IF r.raised \/ Tail(runs[c].todo) = <<>> THEN "done" ELSE "delete"]]
       /\ UNCHANGED <<wrote, base_dir, backend, cap, clock, ldirs, lplain, lfiles, ret>>

\* One turn of the deletion loop: "try: delete_key(key) except Exception:
\* logger.error(...)".
SweepDelete(c, fails) ==
    LET key == Head(runs[c].todo)
        r == DeleteKey(s3keys, key, fails)
    IN /\ runs[c].pc = "delete"
       /\ s3keys' = r.keys
       /\ runs' = [runs EXCEPT ![c] = [@ EXCEPT
                     !.todo = Tail(@),
                     !.failed = IF r.raised THEN @ \cup {key} ELSE @,
                     !.pc = IF Tail(runs[c].todo) = <<>> THEN "done" ELSE "delete"]]
       /\ UNCHANGED <<wrote, base_dir, backend, cap, clock, ldirs, lplain, lfiles, ret>>

\* The buckets the sweeps start from: version prefixes within the room there
\* is, each holding some of the artifacts, and possibly a key directly under
\* the prefix.
SweepStores ==
    {ks \in SUBSET ({Path(BasePrefix, DefaultArtifactType, v, b, "csv") :
                        v \in DirNames, b \in BaseNames}
                    \cup {Path(BasePrefix, DefaultArtifactType, "", "X_train", "csv")}) :
        Cardinality({k.ver : k \in ks} \ {""}) <= MaxDirs}

InitSweep ==
    /\ backend = "s3"
    /\ base_dir = DefaultBaseDir
    /\ cap = MaxDirs
    /\ clock = 0
    /\ ldirs = {}
    /\ lplain = {}
    /\ lfiles = {}
    /\ s3keys \in SweepStores
    /\ ret = NoRet
    /\ runs = [c \in Sweepers |-> [NoRun EXCEPT !.pc = "start"]]
    /\ wrote = {}

NextSweep ==
    \/ \E c \in Sweepers, k \in KeepCounts : SweepCall(c, k)
    \/ \E c \in Sweepers, at \in ArtifactTypes, fails \in BOOLEAN : SweepListPage(c, at, fails)
    \/ \E c \in Sweepers, fails \in BOOLEAN : SweepDelete(c, fails)

SpecSweep == InitSweep /\ [][NextSweep]_vars

\* ------------------------------- a reader, a producer and a sweep at once
\* One get_latest call runs while a producer creates and fills a version and
\* a cleanup call sweeps.  The calls are split at their accesses to the
\* store; everything a call does between two of them is one step.

\* get_latest_artifacts is called.
ReadCall(g, base_names) ==
    /\ runs[g].pc = "start"
    /\ runs' = [runs EXCEPT ![g] = [@ EXCEPT !.pc = "list", !.names = base_names]]
    /\ UNCHANGED <<wrote, base_dir, backend, cap, clock, ldirs, lplain, lfiles, s3keys, ret>>

\* ArtifactManager.get_latest_artifacts up to the choice of latest_dir: the
\* early return, the scan of the format directory, the fallback.
ReadScan(g, subdir, format_ext) ==
    LET sub == Subdir(subdir, format_ext)
        tds == TimestampDirs(ldirs, lplain, sub)
    IN /\ runs[g].pc = "list"
       /\ backend = "local"
       /\ runs' = [runs EXCEPT ![g] =
                     IF Entry(sub, "") \notin ldirs
                     THEN [@ EXCEPT !.pc = "return"]
                     ELSE IF tds = {}
                     THEN [@ EXCEPT !.pc = "return",
                                    !.out = LegacyFallback(lfiles, runs[g].names, format_ext)]
                     ELSE [@ EXCEPT !.ts = LatestDir(tds), !.left = runs[g].names,
                                    !.pc = IF runs[g].names = {} THEN "return" ELSE "check"]]
       /\ UNCHANGED <<wrote, base_dir, backend, cap, clock, ldirs, lplain, lfiles, s3keys, ret>>

\* One turn of the final loop of ArtifactManager.get_latest_artifacts:
\* "if artifact_path.exists(): latest_paths[base_name] = str(artifact_path)".
ReadCheck(g, b, subdir, format_ext) ==
    LET found == LatestPaths(lfiles, Subdir(subdir, format_ext), runs[g].ts, {b}, format_ext)
    IN /\ runs[g].pc = "check"
       /\ b \in runs[g].left
       /\ runs' = [runs EXCEPT ![g] = [@ EXCEPT
                     !.out = [x \in DOMAIN @ \cup DOMAIN found |->
                                IF x \in DOMAIN found THEN found[x] ELSE @[x]],
                     !.left = @ \ {b},
                     !.pc = IF runs[g].left = {b} THEN "return" ELSE "check"]]
       /\ UNCHANGED <<wrote, base_dir, backend, cap, clock, ldirs, lplain, lfiles, s3keys, ret>>

\* One page of the listing of S3ArtifactManager.get_latest_artifacts; after
\* the last page, the rest of the call up to its return, which reads the
\* listing only.
ReadListPage(g, artifact_type, format_ext, fails) ==
    LET page == ListPage(s3keys, artifact_type, runs[g].after)
        all_keys == runs[g].listing \cup page.keys
        tds == S3TimestampDirs(all_keys)
    IN /\ runs[g].pc = "list"
       /\ backend = "s3"
       /\ runs' = [runs EXCEPT ![g] =
                     IF fails
                     THEN [@ EXCEPT !.pc = "return", !.listFailed = TRUE, !.listing = {}]
                     ELSE IF page.more
                     THEN [@ EXCEPT !.listing = all_keys, !.after = page.last]
                     ELSE [@ EXCEPT !.listing = all_keys, !.after = page.last,
                                    !.pc = "return",
                                    !.ts = IF tds = {} THEN "" ELSE StrMax(tds),
                                    !.out = IF tds = {} THEN EmptyMap
                                            ELSE S3LatestPaths(all_keys, artifact_type,
                                                               StrMax(tds), runs[g].names,
                                                               format_ext)]]
       /\ UNCHANGED <<wrote, base_dir, backend, cap, clock, ldirs, lplain, lfiles, s3keys, ret>>

\* "return latest_paths"
ReadReturn(g) ==
    /\ runs[g].pc = "return"
    /\ runs' = [runs EXCEPT ![g] = [@ EXCEPT !.pc = "done"]]
    /\ UNCHANGED <<wrote, base_dir, backend, cap, clock, ldirs, lplain, lfiles, s3keys, ret>>

\* ArtifactManager.cleanup_old_artifacts up to dirs_to_remove.
LocalSweepScan(c, subdir, format_ext) ==
    LET rm == DirsToRemove(ldirs, lplain, runs[c].keep, subdir, format_ext)
        todo == SelectSeq(SortNewestFirst(TimestampDirs(ldirs, lplain,
                                                        Subdir(subdir, format_ext))),
                          LAMBDA d : d \in rm)
    IN /\ runs[c].pc = "list"
       /\ backend = "local"
       /\ runs' = [runs EXCEPT ![c] = [@ EXCEPT
                     !.todo = todo,
                     !.pc = IF todo = <<>> THEN "done" ELSE "delete"]]
       /\ UNCHANGED <<wrote, base_dir, backend, cap, clock, ldirs, lplain, lfiles, s3keys, ret>>

\* One turn of the removal loop: shutil.rmtree(dir_path), which may fail and
\* leave any part of the directory's files; the failure is logged.
LocalSweepRemove(c, subdir, format_ext, fails) ==
    LET sub == Subdir(subdir, format_ext)
        d == Head(runs[c].todo)
    IN /\ runs[c].pc = "delete"
       /\ backend = "local"
       /\ \E left \in SUBSET FilesUnder(lfiles, sub, d) :
            LET r == RemoveDirs(ldirs, lfiles, sub, {d},
                                IF fails THEN {d} ELSE {}, IF fails THEN left ELSE {})
            IN /\ ldirs' = r.dirs
               /\ lfiles' = r.files
       /\ runs' = [runs EXCEPT ![c] = [@ EXCEPT
                     !.todo = Tail(@),
                     !.failed = IF fails THEN @ \cup {d} ELSE @,
                     !.pc = IF Tail(runs[c].todo) = <<>> THEN "done" ELSE "delete"]]
       /\ UNCHANGED <<wrote, base_dir, backend, cap, clock, lplain, s3keys, ret>>

Reader == "g"
Actors == {Reader, "p1", "c1"}

\* One version of last year, filled, on the store of the manager in use.
InitMix ==
    /\ base_dir = DefaultBaseDir
    /\ backend \in {"local", "s3"}
    /\ cap = MaxDirs
    /\ clock = 0
    /\ ldirs = IF backend = "local" THEN {Entry("csv", ""), Entry("csv", LastYear)} ELSE {}
    /\ lplain = {}
    /\ lfiles = IF backend = "local"
                THEN {Path(BaseDir, "csv", LastYear, b, "csv") : b \in BaseNames} ELSE {}
    /\ s3keys = IF backend = "s3"
                THEN {Path(BasePrefix, DefaultArtifactType, LastYear, b, "csv") : b \in BaseNames}
                ELSE {}
    /\ ret = NoRet
    /\ runs = [a \in Actors |-> [NoRun EXCEPT !.pc = "start"]]
    /\ wrote = {}

NextMix ==
    \/ RaceTick
    \/ \E ns \in NameSets : ReadCall(Reader, ns)
    \/ \E sd \in SubdirArgs, e \in Exts : ReadScan(Reader, sd, e)
    \/ \E b \in BaseNames, sd \in SubdirArgs, e \in Exts : ReadCheck(Reader, b, sd, e)
    \/ \E at \in ArtifactTypes, e \in Exts, fails \in BOOLEAN : ReadListPage(Reader, at, e, fails)
    \/ ReadReturn(Reader)
    \/ \E ns \in RaceNameSets : ProducerStamp("p1", ns)
    \/ \E e \in Exts : ProducerPaths("p1", e)
    \/ \E b \in BaseNames : ProducerWrite("p1", b)
    \/ \E k \in 1..MaxKeep : SweepCall("c1", k)
    \/ \E sd \in SubdirArgs, e \in Exts : LocalSweepScan("c1", sd, e)
    \/ \E sd \in SubdirArgs, e \in Exts, fails \in BOOLEAN : LocalSweepRemove("c1", sd, e, fails)
    \/ \E at \in ArtifactTypes, fails \in BOOLEAN : backend = "s3" /\ SweepListPage("c1", at, fails)
    \/ \E fails \in BOOLEAN : backend = "s3" /\ SweepDelete("c1", fails)

SpecMix == InitMix /\ [][NextMix]_vars

\* ------------------------------------------------- the contract's vocabulary
\* The store a manager works on, and the root of its locations.
Files(on) == IF on = "local" THEN lfiles ELSE s3keys
Root(on) == IF on = "local" THEN BaseDir ELSE BasePrefix

\* The discovered names that match the 14-digit pattern: directories of
\* base_dir/sub on the local backend, first key segments under the prefix of
\* artifact type sub on the object store.
VersionNames(on, sub) ==
    IF on = "local"
    THEN {n \in DirNames : Entry(sub, n) \in ldirs /\ Matches[n]}
    ELSE {n \in DirNames :
            Matches[n] /\ \E k \in s3keys : k.root = BasePrefix /\ k.sub = sub /\ k.ver = n}

\* The valid versions: the names a backend's enumeration admits.  The local
\* backend also requires the name to parse as a date and time.
Valid(on, sub) ==
    IF on = "local" THEN {n \in VersionNames(on, sub) : Parses[n]}
    ELSE VersionNames(on, sub)

\* A version holds at least one artifact.
Populated(on, sub, v) ==
    \E f \in Files(on) : f.root = Root(on) /\ f.sub = sub /\ f.ver = v

\* The greatest version of a set, by string comparison.
Greatest(on, sub, v) ==
    v \in Valid(on, sub) /\ \A u \in Valid(on, sub) : u = v \/ StrBefore[u][v]

\* What create_paths returns to the caller of the call that has just returned,
\* for the same base names, subdir or artifact type and extension, and version t.
CreatedBy(t) ==
    IF ret.on = "local"
    THEN CreateTimestampedPaths(ldirs, lplain, clock, ret.names, t, Some(ret.sub), ret.ext)
    ELSE CreateS3Paths(clock, ret.names, t, ret.sub, ret.ext)

GetLatestReturned == ret.op = "get_latest" /\ ~ret.listFailed

\* ------------------------------------------------------------------ claims
\* C1 as stated: whenever get_latest returns while an artifact is stored at
\* every location create_paths returns for the same base names, subdir or
\* artifact type and extension (version omitted or supplied), the map
\* get_latest returns equals the map create_paths returns.
C1_RoundTripAnyVersion ==
    GetLatestReturned =>
        \A t \in TimestampArgs :
            LET c == CreatedBy(t)
            IN (~c.raised /\ Range(c.out) \subseteq Files(ret.on)) => ret.out = c.out

\* C1, amended: the round trip holds when the version create_paths used is a
\* valid version of the backend and no greater valid version exists in the same
\* subdir or artifact type.
C1_RoundTrip ==
    GetLatestReturned =>
        \A t \in TimestampArgs :
            LET c == CreatedBy(t)
            IN (/\ ~c.raised
                /\ Range(c.out) \subseteq Files(ret.on)
                /\ Greatest(ret.on, ret.sub, c.ts)) => ret.out = c.out

\* A round trip over both base names, with an older version still stored.
C1_Witness ==
    /\ GetLatestReturned
    /\ ret.names = BaseNames
    /\ Cardinality(Valid(ret.on, ret.sub)) >= 2
    /\ \E t \in TimestampArgs :
         /\ Greatest(ret.on, ret.sub, CreatedBy(t).ts)
         /\ Range(CreatedBy(t).out) \subseteq Files(ret.on)
         /\ ret.out = CreatedBy(t).out

\* C2 as stated: whenever two populated valid versions T1 < T2 are stored,
\* get_latest returns only locations under T2.
C2_LatestIsAnyNewer ==
    GetLatestReturned =>
        \A t1 \in Valid(ret.on, ret.sub), t2 \in Valid(ret.on, ret.sub) :
            (/\ Populated(ret.on, ret.sub, t1)
             /\ Populated(ret.on, ret.sub, t2)
             /\ StrBefore[t1][t2]) => \A p \in Range(ret.out) : p.ver = t2

\* C2, amended: whenever two populated valid versions T1 < T2 are stored and
\* no valid version greater than T2 exists, get_latest returns only locations
\* under T2.
C2_MonotonicLatest ==
    GetLatestReturned =>
        \A t1 \in Valid(ret.on, ret.sub), t2 \in Valid(ret.on, ret.sub) :
            (/\ Populated(ret.on, ret.sub, t1)
             /\ Populated(ret.on, ret.sub, t2)
             /\ StrBefore[t1][t2]
             /\ Greatest(ret.on, ret.sub, t2)) => \A p \in Range(ret.out) : p.ver = t2

\* get_latest has returned locations of the newest version while an older
\* version holds the same artifacts.
C2_Witness ==
    /\ GetLatestReturned
    /\ ret.out # EmptyMap
    /\ Greatest(ret.on, ret.sub, ret.ver)
    /\ \E t1 \in Valid(ret.on, ret.sub) :
         /\ StrBefore[t1][ret.ver]
         /\ \A b \in DOMAIN ret.out :
              Path(Root(ret.on), ret.sub, t1, b, ret.ext) \in Files(ret.on)

\* C3: when a valid version exists, the keys of the map get_latest returns are
\* exactly the requested base names whose artifact is stored in the newest
\* valid version, and the call does not raise.
C3_PartialTolerance ==
    (GetLatestReturned /\ Valid(ret.on, ret.sub) # {}) =>
        /\ ~ret.raised
        /\ DOMAIN ret.out =
             {b \in ret.names :
                Path(Root(ret.on), ret.sub, StrMax(Valid(ret.on, ret.sub)), b, ret.ext)
                    \in Files(ret.on)}

\* get_latest has returned some but not all of the requested names.
C3_Witness ==
    /\ GetLatestReturned
    /\ Valid(ret.on, ret.sub) # {}
    /\ DOMAIN ret.out # {}
    /\ DOMAIN ret.out # ret.names

\* C4 as stated: whenever the local get_latest returns while no valid version
\* directory exists under base_dir/subdir, the map it returns holds the legacy
\* path of every requested base name whose legacy file exists, and nothing else.
C4_LegacyFallback ==
    (ret.op = "get_latest" /\ ret.on = "local" /\ Valid("local", ret.sub) = {}) =>
        ret.out = [b \in {x \in ret.names : LegacyPath(x, ret.ext) \in lfiles}
                     |-> LegacyPath(b, ret.ext)]

\* The subdirs and artifact types that calls name.
SubsInUse == {Subdir(sd, e) : sd \in SubdirArgs, e \in Exts} \cup ArtifactTypes

\* The k greatest of a set of versions, by string comparison.
Newest(vs, k) == {v \in vs : Cardinality({u \in vs : StrBefore[v][u]}) < k}

\* C5: a cleanup(keep_count) that finds more than keep_count valid versions and
\* whose deletes all succeed leaves exactly the keep_count greatest valid
\* versions, and no artifact of any other valid version in storage.
C5_Retention ==
    [][\A on \in {"local", "s3"}, sub \in SubsInUse :
         (/\ Idle
          /\ ret'.op = "cleanup" /\ ret'.on = on /\ ret'.sub = sub
          /\ ~ret'.listFailed
          /\ ret'.failed = {}
          /\ ret'.keep >= 0
          /\ Cardinality(Valid(on, sub)) > ret'.keep)
         => /\ Valid(on, sub)' = Newest(Valid(on, sub), ret'.keep)
            /\ \A f \in Files(on)' :
                 (f.root = Root(on) /\ f.sub = sub /\ f.ver \in Valid(on, sub))
                 => f.ver \in Newest(Valid(on, sub), ret'.keep)]_vars

\* A cleanup(1) has removed versions, every delete succeeded, one version is left.
C5_Witness ==
    /\ ret.op = "cleanup"
    /\ ret.keep = 1
    /\ ret.attempted # {}
    /\ ret.failed = {}
    /\ Cardinality(Valid(ret.on, ret.sub)) = 1
    /\ Populated(ret.on, ret.sub, StrMax(Valid(ret.on, ret.sub)))

\* C6: a cleanup(keep_count) that finds at most keep_count valid versions
\* deletes nothing, leaves storage unchanged and does not raise.
C6_IdempotentCleanup ==
    [][\A on \in {"local", "s3"}, sub \in SubsInUse :
         (/\ Idle
          /\ ret'.op = "cleanup" /\ ret'.on = on /\ ret'.sub = sub
          /\ Cardinality(Valid(on, sub)) <= ret'.keep)
         => /\ ~ret'.raised
            /\ ret'.attempted = {}
            /\ UNCHANGED <<ldirs, lplain, lfiles, s3keys>>]_vars

\* A cleanup(keep_count) has returned with exactly keep_count populated
\* versions stored, as a second cleanup after a first one finds them.
C6_Witness ==
    /\ ret.op = "cleanup"
    /\ ret.keep >= 1
    /\ ret.attempted = {}
    /\ Cardinality(Valid(ret.on, ret.sub)) = ret.keep
    /\ \A v \in Valid(ret.on, ret.sub) : Populated(ret.on, ret.sub, v)

\* A step that only adds directories, files or keys under names that do not
\* match the 14-digit pattern, next to valid versions.
StrayAdded ==
    /\ ldirs \subseteq ldirs' /\ lfiles \subseteq lfiles' /\ s3keys \subseteq s3keys'
    /\ lplain' = lplain
    /\ <<ldirs, lfiles, s3keys>>' # <<ldirs, lfiles, s3keys>>
    /\ \A d \in ldirs' \ ldirs :
         d.name \in DirNames /\ ~Matches[d.name] /\ Valid("local", d.sub) # {}
    /\ \A f \in lfiles' \ lfiles :
         f.ver \in DirNames /\ ~Matches[f.ver] /\ Valid("local", f.sub) # {}
    /\ \A k \in s3keys' \ s3keys :
         k.ver \in DirNames /\ ~Matches[k.ver] /\ Valid("s3", k.sub) # {}

\* C7: adding directories or key prefixes whose names do not match the
\* 14-digit pattern next to valid versions changes neither what get_latest
\* returns nor the versions cleanup removes and keeps, for any arguments.
C7_MalformedNames ==
    [][StrayAdded =>
         /\ \A ns \in NameSets, sd \in SubdirArgs, e \in Exts :
              LocalGetLatest(ldirs', lplain', lfiles', ns, sd, e)
                  = LocalGetLatest(ldirs, lplain, lfiles, ns, sd, e)
         /\ \A ns \in NameSets, at \in ArtifactTypes, e \in Exts :
              S3GetLatest(s3keys', ns, at, e, 0) = S3GetLatest(s3keys, ns, at, e, 0)
         /\ \A k \in KeepCounts, sd \in SubdirArgs, e \in Exts :
              /\ DirsToRemove(ldirs', lplain', k, sd, e) = DirsToRemove(ldirs, lplain, k, sd, e)
              /\ Valid("local", Subdir(sd, e))' = Valid("local", Subdir(sd, e))
         /\ \A k \in KeepCounts, at \in ArtifactTypes :
              /\ OldTimestamps(s3keys', at, k, 0) = OldTimestamps(s3keys, at, k, 0)
              /\ Valid("s3", at)' = Valid("s3", at)]_vars

\* get_latest has returned the artifacts of a valid version while a populated
\* directory or prefix named "tmp" is stored next to it.
C7_Witness ==
    /\ GetLatestReturned
    /\ ret.out # EmptyMap
    /\ ret.ver \in Valid(ret.on, ret.sub)
    /\ Populated(ret.on, ret.sub, Tmp)

\* C8 as stated: the version get_latest resolves to is the maximum, by string
\* comparison, of the discovered names that match the 14-digit pattern, and
\* none when no name matches.
C8_LatestSelection ==
    GetLatestReturned =>
        ret.ver = (IF VersionNames(ret.on, ret.sub) = {} THEN ""
                   ELSE StrMax(VersionNames(ret.on, ret.sub)))

\* The two stores hold the same version names, and the same artifacts under each.
SameCollection(sub, at, e) ==
    /\ VersionNames("local", sub) = VersionNames("s3", at)
    /\ \A v \in VersionNames("local", sub), b \in BaseNames :
         Path(BaseDir, sub, v, b, e) \in lfiles <=> Path(BasePrefix, at, v, b, e) \in s3keys

\* C9 as stated: when both stores hold the same version names and the same
\* artifacts under each, and a version matches or no requested legacy file
\* exists, the local get_latest selects the version and returns the key set
\* that the object store's get_latest does for the same base names.
C9_BackendAgnostic ==
    \A at \in ArtifactTypes :
        (/\ ret.op = "get_latest" /\ ret.on = "local"
         /\ SameCollection(ret.sub, at, ret.ext)
         /\ \/ VersionNames("local", ret.sub) # {}
            \/ \A b \in ret.names : LegacyPath(b, ret.ext) \notin lfiles)
        => LET r == S3GetLatest(s3keys, ret.names, at, ret.ext, 0)
           IN ret.ver = r.ver /\ DOMAIN ret.out = DOMAIN r.out

\* C10 as stated: when the listing call fails during the object store's
\* get_latest, the call ends in an exception.
C10_FailurePropagation ==
    (ret.op = "get_latest" /\ ret.on = "s3" /\ ret.listFailed) => ret.raised

\* The keys stored under the prefix of an artifact type.
StoredUnder(at) == {k \in s3keys : k.root = BasePrefix /\ k.sub = at}

\* C11: when a request for a page of the listing fails, the object store's
\* get_latest selects no version and its cleanup attempts no deletion,
\* whatever the pages read before; when no request fails, get_latest selects
\* the greatest version of all stored keys, on whichever page they are.
C11_PaginationBeforeDecision ==
    ret.on = "s3" =>
        /\ (ret.op = "get_latest" /\ ret.listFailed) => (ret.ver = "" /\ ret.out = EmptyMap)
        /\ (ret.op = "cleanup" /\ ret.listFailed) => ret.attempted = {}
        /\ (ret.op = "get_latest" /\ ~ret.listFailed /\ VersionNames("s3", ret.sub) # {})
             => ret.ver = StrMax(VersionNames("s3", ret.sub))

\* The request for the second page has failed after a first page that holds
\* keys of a version.
C11_Witness ==
    /\ ret.on = "s3"
    /\ ret.op \in {"get_latest", "cleanup"}
    /\ ret.failedAt = 2
    /\ \E k \in Page(InKeyOrder(StoredUnder(ret.sub)), 1) : k.ver \in DirNames /\ Matches[k.ver]

\* A version exists: its directory (local), a key under its prefix (object store).
Exists(on, sub, v) ==
    IF on = "local" THEN Entry(sub, v) \in ldirs ELSE Populated(on, sub, v)

ArtifactsOf(on, sub, v) ==
    {f \in Files(on) : f.root = Root(on) /\ f.sub = sub /\ f.ver = v}

\* C13 as stated: after a cleanup call every version that held artifacts
\* before the call holds all of them or none of them.
C13_WholeVersionDeletion ==
    [][(Idle /\ ret'.op = "cleanup")
         => \A on \in {"local", "s3"}, sub \in SubsInUse, v \in DirNames :
              \/ ArtifactsOf(on, sub, v)' = ArtifactsOf(on, sub, v)
              \/ ArtifactsOf(on, sub, v)' = {}]_vars

\* C14: get_latest resolves to the newest valid version whatever it holds:
\* every location it returns lies under that version, and a requested name
\* that the version lacks is left out, also when an older version holds it.
C14_NoOlderVersion ==
    (GetLatestReturned /\ Valid(ret.on, ret.sub) # {}) =>
        LET newest == StrMax(Valid(ret.on, ret.sub))
        IN /\ ret.ver = newest
           /\ \A b \in DOMAIN ret.out : ret.out[b].ver = newest
           /\ \A b \in ret.names \ DOMAIN ret.out :
                Path(Root(ret.on), ret.sub, newest, b, ret.ext) \notin Files(ret.on)

\* The newest version is empty, an older one holds every requested artifact,
\* and get_latest has returned the empty map.
C14_Witness ==
    /\ GetLatestReturned
    /\ ret.names = BaseNames
    /\ ret.out = EmptyMap
    /\ Valid(ret.on, ret.sub) # {}
    /\ ~Populated(ret.on, ret.sub, StrMax(Valid(ret.on, ret.sub)))
    /\ \E v \in Valid(ret.on, ret.sub) :
         \A b \in ret.names : Path(Root(ret.on), ret.sub, v, b, ret.ext) \in Files(ret.on)

\* C15: when the local create_paths has returned, for any base names and the
\* empty list too, the directory base_dir/subdir/version exists; if the version
\* is a valid version name it is among the versions get_latest and cleanup
\* enumerate: get_latest resolves to it unless a greater one exists, and
\* cleanup(keep_count) counts it among the versions of which it keeps keep_count.
C15_EagerDirectory ==
    (ret.op = "create_paths" /\ ret.on = "local" /\ ~ret.raised) =>
        /\ Entry(ret.sub, ret.ver) \in ldirs
        /\ (Matches[ret.ver] /\ Parses[ret.ver]) =>
             LET tds == TimestampDirs(ldirs, lplain, ret.sub)
                 got == LocalGetLatest(ldirs, lplain, lfiles, BaseNames, Some(ret.sub),
                                       ret.ext)
             IN /\ ret.ver \in tds
                /\ got.how = "latest"
                /\ (\A v \in tds : ~StrBefore[ret.ver][v]) => got.ver = ret.ver
                /\ \A k \in 0..MaxKeep :
                     LET rm == DirsToRemove(ldirs, lplain, k, Some(ret.sub), ret.ext)
                     IN /\ Cardinality(tds \ rm) = (IF Cardinality(tds) < k
                                                    THEN Cardinality(tds) ELSE k)
                        /\ (ret.ver \in rm) = (Cardinality({v \in tds : StrBefore[ret.ver][v]}) >= k)

\* create_paths has returned for the empty list of names and a new version,
\* which holds nothing and is newer than a populated version.
C15_Witness ==
    /\ ret.op = "create_paths" /\ ret.on = "local" /\ ~ret.raised
    /\ ret.names = {}
    /\ ret.ver \in Valid("local", ret.sub)
    /\ ~Populated("local", ret.sub, ret.ver)
    /\ \E v \in Valid("local", ret.sub) :
         StrBefore[v][ret.ver] /\ Populated("local", ret.sub, v)

\* C16: a create_paths call on the object store leaves the stored keys (and
\* everything else in storage) unchanged, so that get_latest and cleanup give
\* the same results after it as before it, for all their arguments.
C16_S3CreateIsPure ==
    [][(Idle /\ ret'.op = "create_paths" /\ ret'.on = "s3")
         => /\ s3keys' = s3keys
            /\ UNCHANGED <<ldirs, lplain, lfiles>>
            /\ \A ns \in NameSets, at \in ArtifactTypes, e \in Exts :
                 S3GetLatest(s3keys', ns, at, e, 0) = S3GetLatest(s3keys, ns, at, e, 0)
            /\ \A k \in KeepCounts, at \in ArtifactTypes :
                 KeysToDelete(s3keys', at, k, 0) = KeysToDelete(s3keys, at, k, 0)]_vars

\* create_paths has returned keys of a version of which nothing is stored,
\* while an older version is.
C16_Witness ==
    /\ ret.op = "create_paths" /\ ret.on = "s3"
    /\ ret.names = BaseNames
    /\ ret.ver \in DirNames /\ Matches[ret.ver]
    /\ ~Populated("s3", ret.sub, ret.ver)
    /\ \E v \in Valid("s3", ret.sub) : StrBefore[v][ret.ver]

\* C17: the map create_paths returns has exactly the requested base names as
\* keys, and the location of base name b is base/subdir/version/b.ext, with
\* the manager's base, the subdir (the extension by default) or artifact type
\* of the call, its extension, and one version for all entries.
C17_LocationLayout ==
    (ret.op = "create_paths" /\ ~ret.raised) =>
        /\ DOMAIN ret.out = ret.names
        /\ \A b \in ret.names :
             ret.out[b] = [root |-> (IF ret.on = "local" THEN "data/artifacts" ELSE "artifacts"),
                           sub |-> ret.sub, ver |-> ret.ver, base |-> b, ext |-> ret.ext]
        /\ ret.on = "local" => ret.sub = ret.ext
        /\ ret.on = "s3" => ret.sub = "data_artifacts"
        /\ ret.ver \in DirNames

\* create_paths has returned the locations of both base names.
C17_Witness ==
    /\ ret.op = "create_paths" /\ ~ret.raised
    /\ ret.names = BaseNames
    /\ ret.out["X_train"].ver = ret.out["Y_train"].ver
    /\ ret.out["X_train"] # ret.out["Y_train"]

\* Wall-clock times on both sides of the turn of a minute, an hour, a day, a
\* month with one and with two digits, and a year.
SampleTimes ==
    {[Y |-> 1970, M |-> 1, D |-> 1, h |-> 0, m |-> 0, s |-> 0],
     [Y |-> 2025, M |-> 1, D |-> 1, h |-> 0, m |-> 0, s |-> 59],
     [Y |-> 2025, M |-> 1, D |-> 1, h |-> 0, m |-> 1, s |-> 0],
     [Y |-> 2025, M |-> 1, D |-> 1, h |-> 0, m |-> 59, s |-> 59],
     [Y |-> 2025, M |-> 1, D |-> 1, h |-> 1, m |-> 0, s |-> 0],
     [Y |-> 2025, M |-> 1, D |-> 1, h |-> 9, m |-> 59, s |-> 59],
     [Y |-> 2025, M |-> 1, D |-> 1, h |-> 10, m |-> 0, s |-> 0],
     [Y |-> 2025, M |-> 1, D |-> 9, h |-> 23, m |-> 59, s |-> 59],
     [Y |-> 2025, M |-> 1, D |-> 10, h |-> 0, m |-> 0, s |-> 0],
     [Y |-> 2025, M |-> 9, D |-> 30, h |-> 23, m |-> 59, s |-> 59],
     [Y |-> 2025, M |-> 10, D |-> 1, h |-> 0, m |-> 0, s |-> 0],
     [Y |-> 2025, M |-> 12, D |-> 31, h |-> 23, m |-> 59, s |-> 59],
     [Y |-> 2026, M |-> 1, D |-> 1, h |-> 0, m |-> 0, s |-> 0],
     [Y |-> 9999, M |-> 12, D |-> 31, h |-> 23, m |-> 59, s |-> 59]}

\* strftime gives fourteen digits, ordered as the times are, on the samples.
SampleOrder ==
    \A t \in SampleTimes :
        /\ Len(Strftime(t)) = 14
        /\ \A i \in 1..14 : IsDigit(Strftime(t)[i])
        /\ \A u \in SampleTimes : DtLess(t, u) => StrLess(Strftime(t), Strftime(u))

\* C18: generate_timestamp returns a string of fourteen decimal digits that
\* is greater, as a string, than every identifier of an earlier second, and
\* the call changes nothing in storage.
C18_VersionOrdering ==
    [][(Idle /\ ret'.op = "generate_timestamp")
         => /\ Len(Chars(ret'.ver)) = 14
            /\ \A i \in 1..14 : IsDigit(Chars(ret'.ver)[i])
            /\ \A c \in 0..(clock - 1) :
                 StrLess(Chars(GenerateTimestamp(c)), Chars(ret'.ver))
            /\ SampleOrder
            /\ UNCHANGED <<ldirs, lplain, lfiles, s3keys>>]_vars

\* generate_timestamp has returned in a later second than the first.
C18_Witness ==
    /\ ret.op = "generate_timestamp"
    /\ clock > 0
    /\ ret.ver = Stamp[clock]
    /\ ret.ver # Stamp[0]

\* A run has its map of locations.
HasPaths(p) == runs[p].pc \in {"write", "done"}

\* C19: two runs whose create_paths calls read the clock within the same
\* second hold the same version and, for every base name both requested, the
\* same location; neither call has raised.
C19_SameSecondCollision ==
    \A p \in Producers, q \in Producers :
        (/\ runs[p].pc \in {"stamped", "write", "done"}
         /\ runs[q].pc \in {"stamped", "write", "done"}
         /\ runs[p].at = runs[q].at)
        => /\ runs[p].ts = runs[q].ts
           /\ ~runs[p].raised /\ ~runs[q].raised
           /\ (HasPaths(p) /\ HasPaths(q)) =>
                \A b \in runs[p].names \cap runs[q].names :
                    /\ b \in DOMAIN runs[p].out /\ b \in DOMAIN runs[q].out
                    /\ runs[p].out[b] = runs[q].out[b]

\* Both runs asked for both artifacts within one second and have finished;
\* the version they share holds one artifact of each run.
C19_Witness ==
    /\ \A p \in Producers : runs[p].pc = "done" /\ runs[p].names = BaseNames
    /\ runs["p1"].at = runs["p2"].at
    /\ runs["p1"].ts = runs["p2"].ts
    /\ \E w \in wrote, x \in wrote :
         /\ w.by = "p1" /\ x.by = "p2"
         /\ w.at.ver = runs["p1"].ts /\ x.at.ver = runs["p1"].ts
         /\ w.at \in Files(backend) /\ x.at \in Files(backend)

\* C20: a cleanup call whose listing succeeds does not raise; every stale
\* directory or key whose delete did not fail is gone after it, whatever the
\* other deletes did; and every one whose delete failed is again among those a
\* cleanup with the same keep_count removes.  For keep_count >= 0 the stale
\* ones are all those of the valid versions beyond the keep_count greatest.
C20_BestEffortSweep ==
    [][\A sub \in SubsInUse :
         (Idle /\ ret'.op = "cleanup" /\ ret'.sub = sub /\ ~ret'.listFailed)
         => /\ ~ret'.raised
            /\ ret'.failed \subseteq ret'.attempted
            /\ ret'.on = "local" =>
                 /\ \A d \in ret'.attempted \ ret'.failed :
                      Entry(sub, d) \notin ldirs' /\ ArtifactsOf("local", sub, d)' = {}
                 /\ ret'.failed \subseteq
                      DirsToRemove(ldirs', lplain', ret'.keep, Some(sub), ret'.ext)
                 /\ ret'.keep >= 0 =>
                      ret'.attempted = Valid("local", sub) \ Newest(Valid("local", sub), ret'.keep)
            /\ ret'.on = "s3" =>
                 /\ \A k \in ret'.attempted \ ret'.failed : k \notin s3keys'
                 /\ ret'.failed \subseteq KeysToDelete(s3keys', sub, ret'.keep, 0)
                 /\ ret'.keep >= 0 =>
                      ret'.attempted =
                        {k \in StoredUnder(sub) :
                           k.ver \in Valid("s3", sub) \ Newest(Valid("s3", sub), ret'.keep)}]_vars

\* A cleanup has returned after one delete that failed and one that did not.
C20_Witness ==
    /\ ret.op = "cleanup"
    /\ ~ret.raised
    /\ ret.failed # {}
    /\ ret.attempted \ ret.failed # {}

\* Both sweeps have returned, after listings that succeeded and were the same.
SweptTwice ==
    /\ \A c \in Sweepers : runs[c].pc = "done" /\ ~runs[c].listFailed
    /\ runs["c1"].keep = runs["c2"].keep
    /\ runs["c1"].listing = runs["c2"].listing

\* C21: when two cleanup calls with the same keep_count have run at the same
\* time on the object store over the same listing, neither has raised, and
\* the bucket is what one cleanup of that listing leaves: the listing without
\* the keys to delete, except those whose delete request failed (in both
\* sweeps).  A delete request for a key the other sweep removed is just a
\* request that succeeds.
C21_OverlappingSweeps ==
    SweptTwice =>
        LET all_keys == runs["c1"].listing
            del == Range(DeleteOrder(all_keys, OldOf(all_keys, runs["c1"].keep)))
        IN /\ \A c \in Sweepers : ~runs[c].raised
           /\ s3keys = DeleteKeys(all_keys, del,
                                  runs["c1"].failed \cap runs["c2"].failed).keys

\* Both sweeps went through the same keys to delete, none of their requests
\* failed, and the keys are gone.
C21_Witness ==
    /\ SweptTwice
    /\ Cardinality(runs["c1"].listing \ s3keys) >= 2
    /\ \A c \in Sweepers : runs[c].failed = {}

ListAllReturned == ret.op = "list_all" /\ ~ret.listFailed

\* The artifacts in 14-digit version directories (prefixes) under the format
\* subdirs (prefixes) of base_dir (base_prefix), of base name b.
InFormatVersions(on, b) ==
    {f \in Files(on) :
        /\ f.root = Root(on)
        /\ f.sub \in {FormatExts[i] : i \in DOMAIN FormatExts}
        /\ f.ver # "" /\ Matches[f.ver]
        /\ f.base = b}

\* The list of base name b in the map list_all returned is made of the pairs
\* (version, location) of the artifacts in want, each once, newest first; b
\* has no list when want is empty.
Lists(b, want) ==
    IF want = {} THEN b \notin DOMAIN ret.info
    ELSE /\ b \in DOMAIN ret.info
         /\ {ret.info[b][i] : i \in DOMAIN ret.info[b]} = {<<f.ver, f>> : f \in want}
         /\ Len(ret.info[b]) = Cardinality(want)
         /\ \A i, j \in DOMAIN ret.info[b] :
              i < j => ~StrBefore[ret.info[b][i][1]][ret.info[b][j][1]]

AgainGetLatest ==
    IF ret'.on = "local"
    THEN LocalGetLatest(ldirs', lplain', lfiles', ret'.names, Some(ret'.sub), ret'.ext).out
    ELSE S3GetLatest(s3keys', ret'.names, ret'.sub, ret'.ext, 0).out
AgainListAll ==
    IF ret'.on = "local" THEN LocalListAll(ldirs', lplain', lfiles')
    ELSE S3ListAll(s3keys', <<0, 0>>)
AgainCreatePaths ==
    IF ret'.on = "local"
    THEN CreateTimestampedPaths(ldirs', lplain', clock', ret'.names, Some(ret'.ver),
                                Some(ret'.sub), ret'.ext)
    ELSE CreateS3Paths(clock', ret'.names, Some(ret'.ver), ret'.sub, ret'.ext)

\* C23: a get_latest or list_all call leaves the directories, files and keys
\* as they were, and, when its listings succeeded, the same call made again
\* right after it returns the same result; so does a create_paths call made
\* again with the version of the first.
C23_ReadOnlyReinvocation ==
    [][/\ (Idle /\ ret'.op \in {"get_latest", "list_all"})
          => /\ UNCHANGED <<ldirs, lplain, lfiles, s3keys>>
             /\ (ret'.op = "get_latest" /\ ~ret'.listFailed) => ret'.out = AgainGetLatest
             /\ (ret'.op = "list_all" /\ ~ret'.listFailed) => ret'.info = AgainListAll
       /\ (Idle /\ ret'.op = "create_paths")
          => /\ ret'.out = AgainCreatePaths.out
             /\ ret'.raised = AgainCreatePaths.raised]_vars

\* get_latest has returned a location from a format directory that exists.
C23_Witness ==
    /\ ret.op = "get_latest"
    /\ ret.on = "local"
    /\ ~ret.listFailed
    /\ ret.out # EmptyMap

\* get_latest of the local manager has returned from its fallback branch.
LegacyReturned == ret.op = "get_latest" /\ ret.on = "local" /\ ret.how = "legacy"

\* C24 as stated: the legacy paths local get_latest checks and returns are
\* base_dir/data/base_name.ext, for every base directory the manager is
\* constructed with.
C24_LegacyUnderBase ==
    LegacyReturned =>
        ret.out = [b \in {x \in ret.names : Path(BaseDir, "data", "", x, ret.ext) \in lfiles}
                     |-> Path(BaseDir, "data", "", b, ret.ext)]

\* C24, amended: the legacy paths local get_latest checks and returns are
\* artifacts/data/base_name.ext, relative to the working directory, for every
\* base directory the manager is constructed with.
C24_LegacyLocation ==
    LegacyReturned =>
        ret.out = [b \in {x \in ret.names : Path("artifacts", "data", "", x, ret.ext) \in lfiles}
                     |-> Path("artifacts", "data", "", b, ret.ext)]

\* A manager constructed with the default base directory has returned a
\* legacy path.
C24_Witness ==
    /\ LegacyReturned
    /\ base_dir = DefaultBaseDir
    /\ ret.out # EmptyMap

\* C25: the map a get_latest call returns has only requested base names as
\* keys, and its locations are either all the locations of those names under
\* one version of the subdir or artifact type asked for, or all legacy flat
\* paths (local manager only).
C25_SingleVersionResult ==
    ret.op = "get_latest" =>
        /\ DOMAIN ret.out \subseteq ret.names
        /\ \/ \E v \in DirNames :
                \A b \in DOMAIN ret.out : ret.out[b] = Path(Root(ret.on), ret.sub, v, b, ret.ext)
           \/ /\ ret.on = "local"
              /\ \A b \in DOMAIN ret.out : ret.out[b] = LegacyPath(b, ret.ext)

\* get_latest has returned one name of two asked for, from the latest
\* version, while a legacy file (local) or an older version (object store)
\* holds the other.
C25_Witness ==
    /\ ret.op = "get_latest"
    /\ ret.how = "latest"
    /\ ret.names = BaseNames
    /\ \E b \in BaseNames :
         /\ DOMAIN ret.out = BaseNames \ {b}
         /\ \/ LegacyPath(b, ret.ext) \in lfiles
            \/ \E k \in s3keys : k.base = b /\ k.ver # "" /\ Matches[k.ver]

\* The greatest of the 14-digit names discovered, and the greatest of the
\* valid versions.
NewestVersions(on, sub) ==
    {v \in VersionNames(on, sub) :
        \/ \A u \in VersionNames(on, sub) : u = v \/ StrBefore[u][v]
        \/ Greatest(on, sub, v)}

\* What get_latest returns for base names ns in the state before a step, and
\* in the state after it.
LatestBefore(on, ns, sub, e) ==
    IF on = "local" THEN LocalGetLatest(ldirs, lplain, lfiles, ns, Some(sub), e).out
    ELSE S3GetLatest(s3keys, ns, sub, e, 0).out
LatestAfter(on, ns, sub, e) ==
    IF on = "local" THEN LocalGetLatest(ldirs', lplain', lfiles', ns, Some(sub), e).out
    ELSE S3GetLatest(s3keys', ns, sub, e, 0).out

\* C26: a cleanup call with keep_count >= 1 leaves the newest version and all
\* its artifacts in place, whichever of its deletes fail, and get_latest
\* returns after it the map it returned before it.
C26_CleanupPreservesLatest ==
    [][\A on \in {"local", "s3"}, sub \in SubsInUse :
         (Idle /\ ret'.op = "cleanup" /\ ret'.on = on /\ ret'.sub = sub /\ ret'.keep >= 1)
         => /\ \A v \in NewestVersions(on, sub) :
                 /\ Exists(on, sub, v)' = Exists(on, sub, v)
                 /\ ArtifactsOf(on, sub, v)' = ArtifactsOf(on, sub, v)
            /\ \A ns \in NameSets, e \in Exts :
                 LatestAfter(on, ns, sub, e) = LatestBefore(on, ns, sub, e)]_vars

\* A cleanup(keep_count >= 1) has deleted an older version and the newest
\* version still holds an artifact.
C26_Witness ==
    /\ ret.op = "cleanup"
    /\ ret.keep >= 1
    /\ ret.attempted \ ret.failed # {}
    /\ \E v \in NewestVersions(ret.on, ret.sub) : ArtifactsOf(ret.on, ret.sub, v) # {}

Min(a, b) == IF a < b THEN a ELSE b
Max(a, b) == IF a < b THEN b ELSE a

\* C27 as stated: after a cleanup(keep_count) whose deletes all succeed, the
\* number of valid versions is min(n, max(keep_count, 0)), n being their
\* number before the call, for every integer keep_count.
C27_RetentionBound ==
    [][\A on \in {"local", "s3"}, sub \in SubsInUse :
         (/\ Idle
          /\ ret'.op = "cleanup" /\ ret'.on = on /\ ret'.sub = sub
          /\ ~ret'.listFailed
          /\ ret'.failed = {})
         => Cardinality(Valid(on, sub)') =
              Min(Cardinality(Valid(on, sub)), Max(ret'.keep, 0))]_vars

\* C28 as stated: when a get_latest call returns, while a producer creates
\* and fills a newer version and a cleanup(keep_count >= 1) sweeps, an
\* artifact is stored at every location of the map it returns.
C28_NoDanglingResult ==
    [][(runs[Reader].pc = "return" /\ runs'[Reader].pc = "done")
       => \A b \in DOMAIN runs'[Reader].out : runs'[Reader].out[b] \in Files(backend)']_vars

\* What get_latest with default subdir or artifact type returns for base name
\* b and extension e, in the current state, on the manager of backend on.
DefaultLatest(on, b, e) ==
    IF on = "local" THEN LocalGetLatest(ldirs, lplain, lfiles, {b}, None, e).out
    ELSE S3GetLatest(s3keys, {b}, DefaultArtifactType, e, 0).out

\* The locations create_paths returns for base name b and extension e with
\* default subdir or artifact type, over all versions.
DefaultLocations(on, b, e) ==
    IF on = "local"
    THEN {Path(BaseDir, Subdir(None, e), v, b, e) : v \in DirNames}
    ELSE {Path(BasePrefix, DefaultArtifactType, v, b, e) : v \in DirNames}

\* C29 as stated: when list_all returns, every stored artifact at a location
\* create_paths returns with default arguments, which get_latest with default
\* arguments returns, is the first entry of the list of its base name.
C29_ListingCoversResolution ==
    ListAllReturned =>
        \A b \in BaseNames, e \in Exts :
            LET latest == DefaultLatest(ret.on, b, e)
            IN (/\ b \in DOMAIN latest
                /\ latest[b] \in DefaultLocations(ret.on, b, e)
                /\ latest[b] \in Files(ret.on))
               => /\ b \in DOMAIN ret.info
                  /\ ret.info[b][1][2] = latest[b]

\* The versions cleanup(keep_count) may delete: valid versions of the subdir
\* or artifact type that are not among the keep_count greatest.
Stale(on, sub, keep_count) ==
    {v \in Valid(on, sub) : keep_count >= 0 => v \notin Newest(Valid(on, sub), keep_count)}

\* C30: a cleanup call adds nothing, and every directory, file or key it
\* removes lies under a stale valid version of the subdir or artifact type it
\* was called for; so entries with other names, versions of other subdirs or
\* artifact types, keys directly under the prefix, plain entries and legacy
\* files stay as they were.
C30_CleanupFrame ==
    [][\A on \in {"local", "s3"}, sub \in AllSubs :
         (Idle /\ ret'.op = "cleanup" /\ ret'.on = on /\ ret'.sub = sub)
         => /\ ldirs' \subseteq ldirs /\ lfiles' \subseteq lfiles /\ s3keys' \subseteq s3keys
            /\ lplain' = lplain
            /\ \A d \in ldirs \ ldirs' :
                 d.sub = sub /\ d.name \in Stale(on, sub, ret'.keep)
            /\ \A f \in (lfiles \ lfiles') \cup (s3keys \ s3keys') :
                 f.root = Root(on) /\ f.sub = sub /\ f.ver \in Stale(on, sub, ret'.keep)]_vars

\* A cleanup has deleted a version, and the store still holds a legacy file, a
\* key directly under a prefix, an entry under a name that does not match, or
\* a version of another subdir or artifact type.
C30_Witness ==
    /\ ret.op = "cleanup"
    /\ ret.attempted \ ret.failed # {}
    /\ \E f \in lfiles \cup s3keys :
         \/ f.ver = ""
         \/ ~Matches[f.ver]
         \/ f.sub # ret.sub

====
